---- MODULE Spec2Model ----
(***************************************************************************)
(* A model of the league system: the round-robin scheduler                 *)
(* (agents/league_manager/scheduler.py), the resilient transport with its  *)
(* circuit breaker, retrying client and backoff delay                      *)
(* (agents/player_P02/resilience.py), the game logic                       *)
(* (agents/referee_REF02/game_logic.py), the referee's run of a match      *)
(* (agents/referee_REF01/handlers.py), the thread-safe counter and the     *)
(* worker pool (SHARED/league_sdk/parallel.py) and the league manager's    *)
(* round handlers (agents/league_manager/handlers.py).                     *)
(*                                                                         *)
(* Each component has its own variables, initial condition and next-state  *)
(* relation; a specification of one component keeps the others idle.       *)
(***************************************************************************)
EXTENDS Integers, Sequences, FiniteSets, TLC

VARIABLES
    \* ---- scheduler (one caller of RoundRobinScheduler) ----
    player_ids,         \* the caller's participant list (a Python list object)
    schedule,           \* the caller's schedule: list of rounds of (a, b) tuples
    valid,              \* <<b>>, b the last result of validate_schedule; <<>> before a call
    sched_pc,           \* "start" | "created" | "given" | "validated"
    \* ---- circuit breaker (one CircuitBreaker instance) ----
    failure_threshold,  \* constructor argument
    recovery_timeout,   \* constructor argument (clock units)
    state,              \* CircuitBreaker.State
    failure_count,
    last_failure_time,  \* None or <<the clock value of the last record_failure>>
    now,                \* the clock read by datetime.utcnow()
    last_call,          \* history: the method called last
    can_execute_result, \* history: value returned by the last can_execute()
    streak,             \* history: record_failure calls since the last record_success
    admitted,           \* history: callers admitted with no outcome recorded since
    prev_state,         \* history: the mode in which the last call found the breaker
    \* ---- resilient transport (one ResilientClient and its caller) ----
    max_retries,        \* RetryClient constructor argument
    cl_pc,              \* "off" | "idle" | "attempt" (awaiting client.post) | "sleep"
    attempt,            \* the loop variable of RetryClient.post
    post_result,        \* value returned by the last post: None or <<"response">>
    last_outcome,       \* history: how the last network attempt ended ("none" before one)
    rejected,           \* history: the breaker rejected the last post
    attempts,           \* history: network attempts made by the current or last post
    sleeps,             \* history: backoff sleeps started by the current or last post
    records,            \* history: record_success/record_failure calls of that post
    posts,              \* history: post calls made
    \* ---- backoff delay (one RetryClient and a caller of _calculate_delay) ----
    backoff_strategy,   \* constructor argument
    initial_delay,      \* constructor argument (seconds)
    max_delay,          \* constructor argument (seconds)
    delay_attempt,      \* the argument of the last _calculate_delay call
    random_draw,        \* r: the value random.random() returned was r / JitterSteps
    delay,              \* None or <<d>>: the call returned d / (4 * JitterSteps) seconds
    \* ---- game logic (one EvenOddGame and a caller of its methods) ----
    game_call,          \* the last call: its method and its arguments
    game_result,        \* None or <<the GameResult the last call returned>>
    \* ---- referee (one RefereeState, its handlers and its match tasks) ----
    config_players,     \* the players config_loader.load_agents() lists with an endpoint
    intended,           \* what each participant answers to a choice request
    replies,            \* what each participant answers to the other requests, where it is fixed
    pending,            \* the requests the referee is still to receive, in order
    player_endpoints,   \* state.player_endpoints: the players with an endpoint in it
    active_matches,     \* state.active_matches: dict from match id to its entry
    matches_lock,       \* state._matches_lock: None or <<the task that holds it>>
    endpoints_lock,     \* state._endpoints_lock: None or <<the task that holds it>>
    \* of each task that runs _run_match_async:
    m_pc,               \* where the task stands
    m_match,            \* the match id it was created with
    m_turn,             \* which of the two participants the current loop is at
    invite_results,     \* dict: participant -> the "accepted" value of its result
    m_choices,          \* dict: participant -> None or <<its normalized choice>>
    m_game_result,      \* None or <<the GameResult of the run>>
    m_returned,         \* None or <<the GameResult _run_match_async returned>>
    sent,               \* history: the requests posted, in order, as <<message, receiver>>
    invite_kind,        \* history: dict participant -> how its invitation went
    notify_failed,      \* history: the participants whose game-over notification failed
    report_failed,      \* history: the post of the report failed
    unlocked_writes,    \* history: the dicts written by a writer not holding their lock
    finish_calls,       \* history: how many times each task has called _finish_match
    \* ---- thread-safe counter (one ThreadSafeCounter and the threads that call it) ----
    c_initial,          \* constructor argument
    c_value,            \* self._value
    c_lock,             \* self._lock: None or <<the thread that holds it>>
    \* of each thread:
    c_pc,               \* where the thread stands in its call
    c_call,             \* the call it makes or made last: its method and amount
    c_loaded,           \* the value of self._value it loaded for += or -=
    c_result,           \* None or <<the value its last call returned>>
    c_after,            \* history: None or <<self._value right after its own store>>
    c_calls,            \* history: how many calls it has made
    c_net,              \* history: increment amounts minus decrement amounts of all calls made
    \* ---- worker pool (one WorkerPool, its caller and its worker threads) ----
    num_workers,        \* constructor argument
    pool_running,       \* self._running
    pool_workers,       \* self._workers: the threads in the list
    task_queue,         \* self.task_queue: the tasks put and not yet taken, in order
    unfinished_tasks,   \* the queue's count of tasks put and not yet marked done
    result_queue,       \* self.result_queue: the TaskResults put and not yet got, in order
    pool_pc,            \* where the caller stands: "off" | "idle" | "join" | "join_workers"
    stop_wait,          \* the wait argument of the last stop()
    \* of each worker thread:
    w_pc,               \* where the thread stands in _worker
    w_task,             \* None or <<the task it has taken>>
    last_pool_call,     \* history: the caller's last call and how it ended
    submitted,          \* history: the tasks put on the task queue
    taken,              \* history: per task, the threads that took it from the queue
    handled,            \* history: per task, how many times the handler was called with it
    results_put,        \* history: every TaskResult put on the result queue
    \* ---- league manager (one LeagueState and its handlers) ----
    registered_players, \* state.registered_players: the player ids, in order of registration
    registered_referees,\* state.registered_referees: the referee ids
    lg_schedule,        \* state.schedule
    current_round,      \* state.current_round
    matches_completed_this_round,
    rounds_completed,   \* "rounds_completed" of the standings file
    lg_pc,              \* "off" | "registered" | "started"
    lg_last,            \* history: the last call and how it ended
    announced,          \* history: the round ids announced without an error
    reported,           \* history: the matches <<round, index>> a report was received for
    completed_log,      \* history: the round_id of every ROUND_COMPLETED broadcast, in order
    announces,          \* history: how many announce_round calls were made
    reports             \* history: how many report_match_result calls were made

schedVars == <<player_ids, schedule, valid, sched_pc>>
cbVars == <<failure_threshold, recovery_timeout, state, failure_count,
            last_failure_time, now, last_call, can_execute_result, streak,
            admitted, prev_state>>
clVars == <<max_retries, cl_pc, attempt, post_result, last_outcome, rejected,
            attempts, sleeps, records, posts>>
delayVars == <<backoff_strategy, initial_delay, max_delay, delay_attempt,
               random_draw, delay>>
gameVars == <<game_call, game_result>>
matchVars == <<config_players, intended, replies, pending, player_endpoints,
               active_matches, matches_lock, endpoints_lock, m_pc, m_match, m_turn,
               invite_results, m_choices, m_game_result, m_returned, sent,
               invite_kind, notify_failed, report_failed, unlocked_writes,
               finish_calls>>
counterVars == <<c_initial, c_value, c_lock, c_pc, c_call, c_loaded, c_result,
                 c_after, c_calls, c_net>>
poolVars == <<num_workers, pool_running, pool_workers, task_queue, unfinished_tasks,
              result_queue, pool_pc, stop_wait, w_pc, w_task, last_pool_call,
              submitted, taken, handled, results_put>>
leagueVars == <<registered_players, registered_referees, lg_schedule, current_round,
                matches_completed_this_round, rounds_completed, lg_pc, lg_last,
                announced, reported, completed_log, announces, reports>>
vars == <<schedVars, cbVars, clVars, delayVars, gameVars, matchVars, counterVars,
         poolVars, leagueVars>>

\* the variables a specification of one component leaves alone
exceptSched == <<cbVars, clVars, delayVars, gameVars, matchVars, counterVars, poolVars,
    leagueVars>>
exceptBreaker == <<schedVars, clVars, delayVars, gameVars, matchVars, counterVars,
    poolVars, leagueVars>>
exceptClient == <<schedVars, delayVars, gameVars, matchVars, counterVars, poolVars,
    leagueVars>>
exceptDelay == <<schedVars, cbVars, clVars, gameVars, matchVars, counterVars, poolVars,
    leagueVars>>
exceptGame == <<schedVars, cbVars, clVars, delayVars, matchVars, counterVars,
    poolVars, leagueVars>>
exceptMatch == <<schedVars, cbVars, clVars, delayVars, gameVars, counterVars, poolVars,
    leagueVars>>
exceptLeague == <<schedVars, cbVars, clVars, delayVars, gameVars, matchVars, counterVars, poolVars>>
exceptPool == <<schedVars, cbVars, clVars, delayVars, gameVars, matchVars, counterVars,
    leagueVars>>
exceptCounter == <<schedVars, cbVars, clVars, delayVars, gameVars, matchVars, poolVars,
    leagueVars>>

\* Python's None; an optional value v that is present is <<v>>
None == <<>>

(***************************************************************************)
(* Bounds of the model.                                                    *)
(***************************************************************************)
\* how many of the identifiers of AllIds a participant list is drawn from
MaxIds == 6
\* how many matches a hand-written schedule given to validate_schedule holds
MaxMatches == 3

\* Participant identifiers are opaque strings.  The sample holds the ids the
\* league manager issues ("P01", "P02", ...) and the string "BYE"; the order
\* of the sequence is the order of Python's string comparison.
AllIds == <<"BYE", "P01", "P02", "P03", "P04", "P05", "P06">>
Ids == {AllIds[i] : i \in 1..MaxIds}
\* identifiers of the hand-written schedules given to validate_schedule
ValIds == {"BYE", "P01", "P02"}

\* all sequences without repetition over S (lists of distinct identifiers)
RECURSIVE DistinctSeqs(_)
DistinctSeqs(S) ==
    IF S = {} THEN {<<>>}
    ELSE {<<>>} \cup UNION {{<<x>> \o t : t \in DistinctSeqs(S \ {x})} : x \in S}

\* all sequences over S of length at most k
RECURSIVE SeqsUpTo(_, _)
SeqsUpTo(S, k) ==
    IF k = 0 THEN {<<>>}
    ELSE LET shorter == SeqsUpTo(S, k - 1)
         IN  shorter \cup {Append(t, x) : t \in {u \in shorter : Len(u) = k - 1}, x \in S}

\* the elements of a list
Range(s) == {s[i] : i \in DOMAIN s}

\* the matches of a schedule in iteration order (for round in schedule: for
\* match in round)
RECURSIVE Flatten(_)
Flatten(sch) == IF sch = <<>> THEN <<>> ELSE Head(sch) \o Flatten(Tail(sch))

(***************************************************************************)
(* RoundRobinScheduler                                                     *)
(***************************************************************************)

\* get_total_matches: n(n-1)/2
get_total_matches(num_players) == (num_players * (num_players - 1)) \div 2

\* get_num_rounds
get_num_rounds(num_players) ==
    IF num_players % 2 = 0 THEN num_players - 1 ELSE num_players

\* get_matches_per_round
get_matches_per_round(num_players) == num_players \div 2

\* (variant: players = player_ids, no copy)
WorkingListAliased(ids) == [list |-> ids, alias |-> TRUE]
\* line 56, players = list(player_ids): the working list is a new list object,
\* not the caller's.  alias says whether the two names denote one object.
WorkingList(ids) == [list |-> ids, alias |-> FALSE]

\* lines 59-61: an odd number of players gets the "BYE" placeholder appended
WithBye(w) ==
    IF Len(w.list) % 2 = 1 THEN [w EXCEPT !.list = Append(@, "BYE")] ELSE w

\* (variant: position i meets position i+1)
PairUpAdjacent(players, n) ==
    LET pairs == [i \in 1..(n \div 2) |-> <<players[i], players[i + 1]>>]
    IN  SelectSeq(pairs, LAMBDA m : m[1] # "BYE" /\ m[2] # "BYE")
\* lines 71-77: position i meets position n-1-i; matches with "BYE" are skipped
PairUp(players, n) ==
    LET pairs == [i \in 1..(n \div 2) |-> <<players[i], players[n + 1 - i]>>]
    IN  SelectSeq(pairs, LAMBDA m : m[1] # "BYE" /\ m[2] # "BYE")

\* line 83: players = [players[0]] + [players[-1]] + players[1:-1]
Rotate(players) ==
    <<players[1], players[Len(players)]>> \o SubSeq(players, 2, Len(players) - 1)

\* lines 68-83: the loop over range(num_rounds)
RECURSIVE Rounds(_, _, _)
Rounds(players, n, left) ==
    IF left = 0 THEN <<>>
    ELSE <<PairUp(players, n)>> \o Rounds(Rotate(players), n, left - 1)

\* (variant: num_rounds = n)
NumRoundsOffByOne(n) == n
\* line 64: num_rounds = n - 1
NumRounds(n) == n - 1

\* create_schedule: the returned schedule
create_schedule(ids) ==
    IF Len(ids) < 2 THEN <<>>
    ELSE LET players == WithBye(WorkingList(ids)).list
             n == Len(players)
         IN  Rounds(players, n, NumRounds(n))

\* create_schedule: the caller's list object after the call.  Only the append
\* of line 60 mutates a list in place; line 83 rebinds the local name.
ArgAfterCreate(ids) ==
    IF Len(ids) < 2 THEN ids
    ELSE LET w == WithBye(WorkingList(ids))
         IN  IF w.alias THEN w.list ELSE ids

\* the place of an identifier in Python's string order
Rank(id) == CHOOSE i \in DOMAIN AllIds : AllIds[i] = id
\* (variant: match = (player_a, player_b), not sorted)
AsGiven(a, b) == <<a, b>>
\* line 158: match = tuple(sorted([player_a, player_b]))
SortedPair(a, b) == IF Rank(a) <= Rank(b) THEN <<a, b>> ELSE <<b, a>>

\* lines 154-155: the self-play check
SelfPlay(a, b) == a = b

\* lines 152-170: the body of the inner loop, on the loop's state
\* [ok, all_matches, player_match_counts]; ok = FALSE is "return False"
CheckMatch(st, m) ==
    LET a == m[1]
        b == m[2]
        match == SortedPair(a, b)
        c1 == IF a \in DOMAIN st.counts
              THEN [st.counts EXCEPT ![a] = @ + 1] ELSE st.counts
        c2 == IF b \in DOMAIN c1 THEN [c1 EXCEPT ![b] = @ + 1] ELSE c1
    IN  IF ~st.ok THEN st
        ELSE IF SelfPlay(a, b) THEN [st EXCEPT !.ok = FALSE]
        ELSE IF match \in Range(st.all_matches) THEN [st EXCEPT !.ok = FALSE]
        ELSE [ok |-> TRUE, all_matches |-> Append(st.all_matches, match), counts |-> c2]

\* line 152: for player_a, player_b in round_matches
RECURSIVE CheckRound(_, _)
CheckRound(st, round_matches) ==
    IF round_matches = <<>> THEN st
    ELSE CheckRound(CheckMatch(st, Head(round_matches)), Tail(round_matches))

\* line 151: for round_matches in schedule
RECURSIVE CheckRounds(_, _)
CheckRounds(st, sch) ==
    IF sch = <<>> THEN st
    ELSE CheckRounds(CheckRound(st, Head(sch)), Tail(sch))

\* line 177: expected_per_player = len(player_ids) - 1
ExpectedPerPlayer(ids) == Len(ids) - 1

\* validate_schedule
validate_schedule(sch, ids) ==
    LET expected_matches == get_total_matches(Len(ids))
        st0 == [ok |-> TRUE, all_matches |-> <<>>,
                counts |-> [pid \in Range(ids) |-> 0]]
        st == CheckRounds(st0, sch)
    IN  /\ st.ok
        /\ Len(st.all_matches) = expected_matches
        /\ \A pid \in DOMAIN st.counts : st.counts[pid] = ExpectedPerPlayer(ids)

\* ---- the scheduler's caller ----

\* a list of matches as rounds of two matches each
RECURSIVE InRoundsOfTwo(_)
InRoundsOfTwo(ms) ==
    IF Len(ms) <= 2 THEN (IF ms = <<>> THEN <<>> ELSE <<ms>>)
    ELSE <<SubSeq(ms, 1, 2)>> \o InRoundsOfTwo(SubSeq(ms, 3, Len(ms)))

FourIds == <<"P01", "P02", "P03", "P04">>

\* the positions <<round, index>> of a schedule
Positions(sch) == UNION {{<<r, i>> : i \in DOMAIN sch[r]} : r \in DOMAIN sch}

\* sch, with the matches at positions p and q replaced by m1 and m2
Replace2(sch, p, m1, q, m2) ==
    [r \in DOMAIN sch |-> [i \in DOMAIN sch[r] |->
        IF <<r, i>> = q THEN m2 ELSE IF <<r, i>> = p THEN m1 ELSE sch[r][i]]]

\* the schedules that differ from sch in at most two matches
Perturbed(sch, S) ==
    {Replace2(sch, p, m1, q, m2) :
        p \in Positions(sch), q \in Positions(sch), m1 \in S \X S, m2 \in S \X S}
    \cup {sch}

\* schedule = scheduler.create_schedule(player_ids); may be called again
CreateSchedule ==
    /\ sched_pc \in {"start", "created"}
    /\ schedule' = create_schedule(player_ids)
    /\ player_ids' = ArgAfterCreate(player_ids)
    /\ sched_pc' = "created"
    /\ valid' = <<>>

\* scheduler.validate_schedule(schedule, player_ids); may be called again
ValidateSchedule ==
    /\ sched_pc \in {"created", "given", "validated"}
    /\ valid' = <<validate_schedule(schedule, player_ids)>>
    /\ sched_pc' = "validated"
    /\ UNCHANGED <<player_ids, schedule>>

SchedIdle ==
    /\ player_ids = <<>>
    /\ schedule = <<>>
    /\ valid = <<>>
    /\ sched_pc = "idle"

\* a caller about to schedule a list of distinct identifiers
SchedInit ==
    /\ player_ids \in DistinctSeqs(Ids)
    /\ schedule = <<>>
    /\ valid = <<>>
    /\ sched_pc = "start"

\* a caller holding a hand-written schedule and a participant list: every
\* schedule of at most MaxMatches matches over ValIds (in rounds of two), and
\* every schedule that differs in at most two matches from the round robin of
\* four players
ValidateInit ==
    /\ \/ /\ player_ids \in DistinctSeqs(ValIds)
          /\ schedule \in {InRoundsOfTwo(ms) : ms \in SeqsUpTo(ValIds \X ValIds, MaxMatches)}
       \/ /\ player_ids = FourIds
          /\ schedule \in Perturbed(create_schedule(FourIds), Range(FourIds))
    /\ valid = <<>>
    /\ sched_pc = "given"

(***************************************************************************)
(* Scheduler claims                                                        *)
(***************************************************************************)
\* the state holds the schedule create_schedule returned for player_ids
Created == sched_pc \in {"created", "validated"}

\* how many matches of ms the participant p plays in
MatchesOf(ms, p) == Cardinality({i \in DOMAIN ms : p \in {ms[i][1], ms[i][2]}})
\* how many matches of ms are between a and b, in either orientation
MeetingsOf(ms, a, b) == Cardinality({i \in DOMAIN ms : {ms[i][1], ms[i][2]} = {a, b}})
\* how often p occurs in the matches of one round, counting both sides
Appearances(round, p) ==
    Cardinality({x \in (DOMAIN round) \X {1, 2} : round[x[1]][x[2]] = p})

\* ms is a complete round robin of the participants ids
Complete(ms, ids) ==
    LET n == Len(ids)
    IN  /\ Len(ms) = (n * (n - 1)) \div 2
        /\ \A a \in Range(ids), b \in Range(ids) : a # b => MeetingsOf(ms, a, b) = 1
        /\ \A i \in DOMAIN ms : ms[i][1] # ms[i][2]
        /\ \A p \in Range(ids) : MatchesOf(ms, p) = n - 1

\* C1 (as claimed): for every list of n >= 2 distinct identifiers the schedule
\* of create_schedule holds n(n-1)/2 pairings, every unordered pair exactly
\* once, no self-pairing, and every participant in exactly n-1 pairings.
C1_ScheduleComplete ==
    (Created /\ Len(player_ids) >= 2) => Complete(Flatten(schedule), player_ids)

\* C1, for lists that do not hold the string "BYE": the schedule is complete.
C1_CompleteWithoutBye ==
    (Created /\ Len(player_ids) >= 2 /\ "BYE" \notin Range(player_ids))
        => Complete(Flatten(schedule), player_ids)

\* C2: in every round of a schedule of create_schedule (n >= 2, odd or even)
\* each identifier appears in at most one pairing of the round.
C2_RoundsDisjoint ==
    (Created /\ Len(player_ids) >= 2) =>
        \A r \in DOMAIN schedule : \A p \in Ids \cup {"BYE"} :
            Appearances(schedule[r], p) <= 1

C2_Witness ==
    /\ Created
    /\ Len(player_ids) = 5
    /\ \A r \in DOMAIN schedule : Len(schedule[r]) = 2

RoundsOfSize(k) == \A r \in DOMAIN schedule : Len(schedule[r]) = k
\* the number of rounds in which p has no pairing
SitsOut(p) == Cardinality({r \in DOMAIN schedule : Appearances(schedule[r], p) = 0})

\* the rounds of the schedule of the participants ids are as the bye rule says
ByeRule(ids) ==
    LET n == Len(ids)
    IN  IF n % 2 = 1
        THEN /\ RoundsOfSize((n - 1) \div 2)
             /\ \A p \in Range(ids) : SitsOut(p) = 1
        ELSE RoundsOfSize(n \div 2)

\* C4 (as claimed): for odd n every round holds (n-1)/2 pairings, no returned
\* pairing holds the placeholder and each participant sits out exactly one
\* round; for even n every round holds n/2 pairings.
C4_ByeHandling ==
    (Created /\ Len(player_ids) >= 2) => ByeRule(player_ids)

\* C4, for lists that do not hold the string "BYE", and with no placeholder in
\* any returned pairing.
C4_ByeHandlingWithoutBye ==
    (Created /\ Len(player_ids) >= 2 /\ "BYE" \notin Range(player_ids)) =>
        /\ ByeRule(player_ids)
        /\ \A r \in DOMAIN schedule : Appearances(schedule[r], "BYE") = 0

\* C6 (as claimed): validate_schedule(create_schedule(P), P) is True for every
\* list P of at least 2 distinct identifiers.
C6_RoundTrip ==
    (sched_pc = "validated" /\ Len(player_ids) >= 2) => valid = <<TRUE>>

\* C6, for lists that do not hold the string "BYE".
C6_RoundTripWithoutBye ==
    (sched_pc = "validated" /\ Len(player_ids) >= 2 /\ "BYE" \notin Range(player_ids))
        => valid = <<TRUE>>

Rejected(sch, ids) ==
    LET ms == Flatten(sch)
    IN  \/ \E i \in DOMAIN ms : ms[i][1] = ms[i][2]
        \/ \E i \in DOMAIN ms, j \in DOMAIN ms :
              i # j /\ {ms[i][1], ms[i][2]} = {ms[j][1], ms[j][2]}
        \/ Len(ms) # get_total_matches(Len(ids))
        \/ \E p \in Range(ids) : MatchesOf(ms, p) # Len(ids) - 1

\* C5: validate_schedule returns False for a schedule with a self-pairing, a
\* repeated unordered pair (in either orientation), a total pairing count
\* other than get_total_matches(len(participants)) or a listed participant
\* whose pairing count is not len(participants)-1, and True otherwise.
C5_ValidateRejects ==
    sched_pc = "validated" => (valid = <<~Rejected(schedule, player_ids)>>)

\* a rejected schedule whose only fault is a pair repeated in the other
\* orientation
C5_Witness ==
    LET ms == Flatten(schedule)
    IN  /\ sched_pc = "validated"
        /\ valid = <<FALSE>>
        /\ \A i \in DOMAIN ms : ms[i][1] # ms[i][2]
        /\ Len(ms) = get_total_matches(Len(player_ids))
        /\ \A p \in Range(player_ids) : MatchesOf(ms, p) = Len(player_ids) - 1
        /\ \A i \in DOMAIN ms, j \in DOMAIN ms : i # j => ms[i] # ms[j]


(***************************************************************************)
(* CircuitBreaker                                                          *)
(***************************************************************************)
\* largest failure_threshold and recovery_timeout a breaker is built with
MaxThreshold == 3
MaxTimeout == 2
\* the clock runs from 0 to MaxTime
MaxTime == 4
\* record_failure is not called once failure_count has reached MaxFailures
MaxFailures == 5
\* the history counter of admitted callers stops counting at MaxAdmitted
MaxAdmitted == 2

Min(a, b) == IF a <= b THEN a ELSE b

\* line 250: elapsed = (datetime.utcnow() - self.last_failure_time).total_seconds()
Elapsed(t, last) == t - last

\* (variant: elapsed > self.recovery_timeout)
RecoveryDueLate(elapsed, timeout) == elapsed > timeout
\* line 251: if elapsed >= self.recovery_timeout
RecoveryDue(elapsed, timeout) == elapsed >= timeout

\* (variant: self.failure_count > self.failure_threshold)
ThresholdReachedLate(count, threshold) == count > threshold
\* line 283: if self.failure_count >= self.failure_threshold
ThresholdReached(count, threshold) == count >= threshold

\* (variant: the counter is left as it is when the breaker closes)
CountKeptOnClosing(count) == count
\* line 265: self.failure_count = 0
CountOnClosing(count) == 0

\* (variant: only the first failure sets the timestamp)
FailureTimeKept(t, last) == IF last = None THEN <<t>> ELSE last
\* line 274: self.last_failure_time = datetime.utcnow()
FailureTime(t, last) == <<t>>

\* __init__
CbInit ==
    /\ failure_threshold \in 1..MaxThreshold
    /\ recovery_timeout \in 0..MaxTimeout
    /\ state = "CLOSED"
    /\ failure_count = 0
    /\ last_failure_time = None
    /\ now = 0
    /\ last_call = "none"
    /\ can_execute_result = <<>>
    /\ streak = 0
    /\ admitted = 0
    /\ prev_state = "CLOSED"

\* a breaker nobody uses
CbIdle ==
    /\ failure_threshold = 1
    /\ recovery_timeout = 0
    /\ state = "CLOSED"
    /\ failure_count = 0
    /\ last_failure_time = None
    /\ now = 0
    /\ last_call = "none"
    /\ can_execute_result = <<>>
    /\ streak = 0
    /\ admitted = 0
    /\ prev_state = "CLOSED"

\* can_execute
can_execute ==
    /\ last_call' = "can_execute"
    /\ prev_state' = state
    /\ IF state = "CLOSED"
       THEN /\ can_execute_result' = <<TRUE>>
            /\ UNCHANGED <<state, admitted>>
       ELSE IF state = "OPEN"
       THEN IF /\ last_failure_time # None
               /\ RecoveryDue(Elapsed(now, last_failure_time[1]), recovery_timeout)
            THEN /\ state' = "HALF_OPEN"
                 /\ can_execute_result' = <<TRUE>>
                 /\ admitted' = 1
            ELSE /\ can_execute_result' = <<FALSE>>
                 /\ UNCHANGED <<state, admitted>>
       ELSE /\ can_execute_result' = <<TRUE>>
            /\ admitted' = Min(admitted + 1, MaxAdmitted)
            /\ UNCHANGED state
    /\ UNCHANGED <<failure_threshold, recovery_timeout, failure_count,
                   last_failure_time, now, streak>>

\* record_success
record_success ==
    /\ last_call' = "record_success"
    /\ prev_state' = state
    /\ IF state = "HALF_OPEN"
       THEN state' = "CLOSED" /\ failure_count' = CountOnClosing(failure_count)
       ELSE IF state = "CLOSED"
       THEN failure_count' = 0 /\ UNCHANGED state
       ELSE UNCHANGED <<state, failure_count>>
    /\ streak' = 0
    /\ admitted' = 0
    /\ UNCHANGED <<failure_threshold, recovery_timeout, last_failure_time, now,
                   can_execute_result>>

\* record_failure
record_failure ==
    /\ failure_count < MaxFailures
    /\ last_call' = "record_failure"
    /\ prev_state' = state
    /\ failure_count' = failure_count + 1
    /\ last_failure_time' = FailureTime(now, last_failure_time)
    /\ IF state = "HALF_OPEN"
       THEN state' = "OPEN"
       ELSE IF state = "CLOSED" /\ ThresholdReached(failure_count', failure_threshold)
       THEN state' = "OPEN"
       ELSE UNCHANGED state
    /\ streak' = streak + 1
    /\ admitted' = 0
    /\ UNCHANGED <<failure_threshold, recovery_timeout, now, can_execute_result>>

\* time passes between two calls: datetime.utcnow() will return a later value
Tick ==
    /\ now < MaxTime
    /\ now' = now + 1
    /\ last_call' = "tick"
    /\ UNCHANGED <<failure_threshold, recovery_timeout, state, failure_count,
                   last_failure_time, can_execute_result, streak, admitted,
                   prev_state>>

(***************************************************************************)
(* Circuit breaker claims                                                  *)
(***************************************************************************)
\* the step is a call of the method m
Calls(m) == last_call' = m

\* C8, the clauses on opening: in CLOSED the counter is the number of failures
\* recorded since the last success and is below the threshold; a failure in
\* CLOSED opens the breaker exactly when it is the T-th in a row; nothing else
\* opens a CLOSED breaker; a success in CLOSED resets the counter.
OpeningRule ==
    /\ [](state = "CLOSED" => (failure_count = streak /\ streak < failure_threshold))
    /\ [][(state = "CLOSED" /\ Calls("record_failure")) =>
            (state' = (IF streak' = failure_threshold THEN "OPEN" ELSE "CLOSED"))]_vars
    /\ [][(state = "CLOSED" /\ state' = "OPEN") =>
            (Calls("record_failure") /\ streak' = failure_threshold)]_vars
    /\ [][(state = "CLOSED" /\ Calls("record_success")) =>
            (state' = "CLOSED" /\ failure_count' = 0)]_vars

\* C8 (as claimed): the clauses on opening, and once OPEN can_execute()
\* returns False.
C8_AsClaimed ==
    /\ OpeningRule
    /\ [][(state = "OPEN" /\ Calls("can_execute")) => can_execute_result' = <<FALSE>>]_vars

\* C8 (amended): the clauses on opening, and once OPEN can_execute() returns
\* False as long as less than recovery_timeout has elapsed since the last
\* recorded failure.
C8_BreakerOpening ==
    /\ OpeningRule
    /\ [][(/\ state = "OPEN"
           /\ Calls("can_execute")
           /\ last_failure_time # None
           /\ now - last_failure_time[1] < recovery_timeout)
            => can_execute_result' = <<FALSE>>]_vars

\* the breaker has just opened on the T-th failure in a row (T >= 2) and has
\* rejected a call
C8_Witness ==
    /\ state = "OPEN"
    /\ failure_threshold >= 2
    /\ streak = failure_threshold
    /\ failure_count = failure_threshold
    /\ last_call = "can_execute"
    /\ can_execute_result = <<FALSE>>

\* C9: while OPEN, a can_execute() made before recovery_timeout has elapsed
\* since the last recorded failure returns False and leaves the mode OPEN; one
\* made once it has elapsed returns True and moves the mode to HALF_OPEN; the
\* mode never goes from OPEN to CLOSED in one step.
C9_Recovery ==
    /\ [][(/\ state = "OPEN"
           /\ Calls("can_execute")
           /\ last_failure_time # None
           /\ now - last_failure_time[1] < recovery_timeout)
            => (can_execute_result' = <<FALSE>> /\ state' = "OPEN")]_vars
    /\ [][(/\ state = "OPEN"
           /\ Calls("can_execute")
           /\ last_failure_time # None
           /\ now - last_failure_time[1] >= recovery_timeout)
            => (can_execute_result' = <<TRUE>> /\ state' = "HALF_OPEN")]_vars
    /\ [][state = "OPEN" => state' # "CLOSED"]_vars

\* a call admitted exactly when a positive recovery_timeout has elapsed
C9_Witness ==
    /\ state = "HALF_OPEN"
    /\ last_call = "can_execute"
    /\ can_execute_result = <<TRUE>>
    /\ recovery_timeout > 0
    /\ last_failure_time # None
    /\ now - last_failure_time[1] = recovery_timeout

\* C10 (as claimed): in HALF_OPEN one call is permitted; after can_execute()
\* has admitted one caller, no further caller is admitted until the trial's
\* success or failure has been recorded.
C10_SingleTrial == admitted <= 1

\* C11: a record_success() in HALF_OPEN moves the mode to CLOSED and sets the
\* failure counter to 0, and every step that brings the mode to CLOSED leaves
\* the counter at 0, so a breaker that has just closed opens again only after
\* failure_threshold new failures in a row.
C11_CounterResetOnClosing ==
    /\ [][(state = "HALF_OPEN" /\ Calls("record_success")) =>
            (state' = "CLOSED" /\ failure_count' = 0)]_vars
    /\ [][(state # "CLOSED" /\ state' = "CLOSED") =>
            (failure_count' = 0 /\ streak' = 0)]_vars
    /\ [][(state = "CLOSED" /\ state' = "OPEN") => streak' = failure_threshold]_vars

\* a successful trial has just closed a breaker that had counted failures
C11_Witness ==
    /\ prev_state = "HALF_OPEN"
    /\ last_call = "record_success"
    /\ state = "CLOSED"
    /\ failure_count = 0
    /\ last_failure_time # None

\* C12: a record_failure() in HALF_OPEN moves the mode to OPEN and sets the
\* failure timestamp to the time of that failure, and while the mode is OPEN a
\* can_execute() made before recovery_timeout has elapsed since the timestamp
\* returns False: a full recovery_timeout has to pass after the failed trial.
C12_FailedTrial ==
    /\ [][(state = "HALF_OPEN" /\ Calls("record_failure")) =>
            (state' = "OPEN" /\ last_failure_time' = <<now>>)]_vars
    /\ [][(/\ state = "OPEN"
           /\ Calls("can_execute")
           /\ last_failure_time # None
           /\ now - last_failure_time[1] < recovery_timeout)
            => (can_execute_result' = <<FALSE>> /\ state' = "OPEN")]_vars
    /\ [](state = "OPEN" => last_failure_time # None)

\* a trial has just failed, later than the failure that opened the breaker
C12_Witness ==
    /\ prev_state = "HALF_OPEN"
    /\ last_call = "record_failure"
    /\ state = "OPEN"
    /\ recovery_timeout > 0
    /\ last_failure_time = <<now>>
    /\ now >= recovery_timeout

(***************************************************************************)
(* RetryClient and ResilientClient                                         *)
(***************************************************************************)
\* largest max_retries a client is built with
MaxRetries == 2
\* how many post calls the caller makes
MaxPosts == 3

\* how an awaited client.post ends: an httpx.Response object, one of the two
\* network errors named by the handlers, or any other exception
Outcomes == {"response", "timeout", "connect_error", "other_error"}

\* (variant: the breaker's answer is not looked at)
BreakerRejectsNever(allowed) == FALSE
\* line 322: if not self.circuit_breaker.can_execute()
BreakerRejects(allowed) == allowed # <<TRUE>>

\* (variant: attempt <= self.max_retries)
MayRetryOnceMore(k, retries) == k <= retries
\* line 186: if attempt < self.max_retries
MayRetry(k, retries) == k < retries

\* lines 146-183: the except clauses; every exception leaves the try statement
\* and goes on to the retry check of line 186
Caught(outcome) == outcome \in {"timeout", "connect_error", "other_error"}

\* ResilientClient.__init__ and RetryClient.__init__
ClInit ==
    /\ max_retries \in 0..MaxRetries
    /\ cl_pc = "idle"
    /\ attempt = 0
    /\ post_result = None
    /\ last_outcome = "none"
    /\ rejected = FALSE
    /\ attempts = 0
    /\ sleeps = 0
    /\ records = 0
    /\ posts = 0

\* no client
ClIdle ==
    /\ max_retries = 0
    /\ cl_pc = "off"
    /\ attempt = 0
    /\ post_result = None
    /\ last_outcome = "none"
    /\ rejected = FALSE
    /\ attempts = 0
    /\ sleeps = 0
    /\ records = 0
    /\ posts = 0

\* ResilientClient.post up to its first await: the breaker is consulted; the
\* call returns None when it rejects and otherwise enters RetryClient.post
ResilientPost ==
    /\ cl_pc = "idle"
    /\ posts < MaxPosts
    /\ posts' = posts + 1
    /\ can_execute
    /\ rejected' = BreakerRejects(can_execute_result')
    /\ cl_pc' = IF rejected' THEN "idle" ELSE "attempt"
    /\ attempt' = 0
    /\ post_result' = None
    /\ last_outcome' = "none"
    /\ attempts' = 0
    /\ sleeps' = 0
    /\ records' = 0
    /\ UNCHANGED max_retries

\* one pass of the loop of RetryClient.post from the return of the awaited
\* client.post: a response is returned to ResilientClient.post, which records
\* a success; a caught exception leads to the backoff sleep when a retry is
\* left and otherwise to return None, on which ResilientClient.post records a
\* failure
Attempt(outcome) ==
    /\ cl_pc = "attempt"
    /\ attempts' = attempts + 1
    /\ last_outcome' = outcome
    /\ IF ~Caught(outcome)
       THEN /\ record_success
            /\ records' = records + 1
            /\ post_result' = <<"response">>
            /\ cl_pc' = "idle"
            /\ UNCHANGED sleeps
       ELSE IF MayRetry(attempt, max_retries)
       THEN /\ cl_pc' = "sleep"
            /\ sleeps' = sleeps + 1
            /\ UNCHANGED <<cbVars, records, post_result>>
       ELSE /\ record_failure
            /\ records' = records + 1
            /\ post_result' = None
            /\ cl_pc' = "idle"
            /\ UNCHANGED sleeps
    /\ UNCHANGED <<max_retries, attempt, rejected, posts>>

\* line 194: the awaited asyncio.sleep(delay) returns and the loop goes on
\* with the next value of attempt
Sleep ==
    /\ cl_pc = "sleep"
    /\ cl_pc' = "attempt"
    /\ attempt' = attempt + 1
    /\ UNCHANGED <<cbVars, max_retries, post_result, last_outcome, rejected,
                   attempts, sleeps, records, posts>>

(***************************************************************************)
(* RetryClient._calculate_delay                                            *)
(*                                                                         *)
(* random.random() returns r / JitterSteps for an r in 0..JitterSteps-1,   *)
(* and a delay of x seconds is the integer x * 4 * JitterSteps, so that    *)
(* every value of the computation is an integer; float rounding is left    *)
(* out.                                                                    *)
(***************************************************************************)
\* largest initial_delay and max_delay a client is built with
MaxInitialDelay == 2
MaxDelayCap == 8
\* largest attempt number passed to _calculate_delay
MaxAttempt == 3
\* how many values random.random() takes
JitterSteps == 4

Seconds(x) == x * 4 * JitterSteps

\* lines 98-103: the delay before jitter, in seconds
BaseDelay(strategy, initial, k) ==
    IF strategy = "exponential" THEN initial * (2 ^ k) ELSE initial * (k + 1)

\* (variant: jitter of up to 50%)
JitterOfHalf(base, r) == base * 2 * (2 * r - JitterSteps)
\* line 106: jitter = delay * 0.25 * (random.random() * 2 - 1)
Jitter(base, r) == base * (2 * r - JitterSteps)

\* _calculate_delay (lines 98-110)
calculate_delay(strategy, initial, cap, k, r) ==
    LET base == BaseDelay(strategy, initial, k)
        jittered == Seconds(base) + Jitter(base, r)
    IN  Min(jittered, Seconds(cap))

\* RetryClient.__init__
DelayInit ==
    /\ backoff_strategy \in {"exponential", "linear"}
    /\ initial_delay \in 0..MaxInitialDelay
    /\ max_delay \in 1..MaxDelayCap
    /\ delay_attempt = 0
    /\ random_draw = 0
    /\ delay = None

\* no client
DelayIdle ==
    /\ backoff_strategy = "exponential"
    /\ initial_delay = 0
    /\ max_delay = 1
    /\ delay_attempt = 0
    /\ random_draw = 0
    /\ delay = None

\* a call _calculate_delay(k) in which random.random() returns r / JitterSteps
CalculateDelay(k, r) ==
    /\ delay_attempt' = k
    /\ random_draw' = r
    /\ delay' = <<calculate_delay(backoff_strategy, initial_delay, max_delay, k, r)>>
    /\ UNCHANGED <<backoff_strategy, initial_delay, max_delay>>

(***************************************************************************)
(* EvenOddGame (game_logic.py)                                             *)
(*                                                                         *)
(* A dict is a function on its set of keys; an Optional value is None or   *)
(* <<v>>; an f-string is the sequence of its parts.                        *)
(***************************************************************************)
\* determine_winner is given a number between -MaxDrawn and MaxDrawn, or None
MaxDrawn == 11

MIN_NUMBER == 1
MAX_NUMBER == 10
WIN_POINTS == 3
DRAW_POINTS == 1
LOSS_POINTS == 0

\* the participants, choices and reasons the methods are called with
GameIds == {"P01", "P02", "P03"}
Choices == {"even", "odd"}
Reasons == {<<"Player", "P01", "timed out on choice">>, <<"forfeit">>}

\* the dict literal {k1: v1, k2: v2}: a key written twice keeps the later value
Dict2(k1, v1, k2, v2) == [k \in {k1, k2} |-> IF k = k2 THEN v2 ELSE v1]

\* (variant: the two parities swapped)
get_parity_swapped(number) == IF number % 2 = 0 THEN "odd" ELSE "even"
\* get_parity
get_parity(number) == IF number % 2 = 0 THEN "even" ELSE "odd"

\* determine_winner once the number is drawn (lines 184-231)
determine_winner(player_a, player_b, choice_a, choice_b, drawn_number) ==
    LET number_parity == get_parity(drawn_number)
        a_correct == choice_a = number_parity
        b_correct == choice_b = number_parity
        choices == Dict2(player_a, <<choice_a>>, player_b, <<choice_b>>)
    IN  IF a_correct /\ ~b_correct
        THEN [status |-> "WIN",
              winner_player_id |-> <<player_a>>,
              drawn_number |-> drawn_number,
              number_parity |-> number_parity,
              choices |-> choices,
              reason |-> <<player_a, "chose", choice_a, "number was",
                           ToString(drawn_number), number_parity>>,
              scores |-> Dict2(player_a, WIN_POINTS, player_b, LOSS_POINTS)]
        ELSE IF b_correct /\ ~a_correct
        THEN [status |-> "WIN",
              winner_player_id |-> <<player_b>>,
              drawn_number |-> drawn_number,
              number_parity |-> number_parity,
              choices |-> choices,
              reason |-> <<player_b, "chose", choice_b, "number was",
                           ToString(drawn_number), number_parity>>,
              scores |-> Dict2(player_a, LOSS_POINTS, player_b, WIN_POINTS)]
        ELSE [status |-> "DRAW",
              winner_player_id |-> None,
              drawn_number |-> drawn_number,
              number_parity |-> number_parity,
              choices |-> choices,
              reason |-> IF a_correct
                         THEN <<"Both chose correctly", number_parity,
                                "number was", ToString(drawn_number)>>
                         ELSE <<"Both guessed wrong, number was",
                                ToString(drawn_number), number_parity>>,
              scores |-> Dict2(player_a, DRAW_POINTS, player_b, DRAW_POINTS)]

\* (variant: the loser is taken for the winner)
SamePlayer(player_a, player_b, losing_player) ==
    IF losing_player = player_a THEN player_a ELSE player_b
\* line 252: winner = player_b if losing_player == player_a else player_a
OtherPlayer(player_a, player_b, losing_player) ==
    IF losing_player = player_a THEN player_b ELSE player_a

\* create_technical_loss
create_technical_loss(player_a, player_b, losing_player, reason) ==
    LET winner == OtherPlayer(player_a, player_b, losing_player)
    IN  [status |-> "TECHNICAL_LOSS",
         winner_player_id |-> <<winner>>,
         drawn_number |-> 0,
         number_parity |-> "even",
         choices |-> Dict2(player_a, None, player_b, None),
         reason |-> reason,
         scores |-> Dict2(winner, WIN_POINTS, losing_player, LOSS_POINTS)]

\* EvenOddGame.__init__
GameInit ==
    /\ game_call = [method |-> "none"]
    /\ game_result = None

\* no game object in use
GameIdle ==
    /\ game_call = [method |-> "off"]
    /\ game_result = None

\* a call determine_winner(player_a, player_b, choice_a, choice_b, given) with
\* given = None or <<number>>; draw_number() returns drawn when it is called.
\* The caller makes one call.
DetermineWinner(player_a, player_b, choice_a, choice_b, given, drawn) ==
    /\ game_call.method = "none"
    /\ game_call' = [method |-> "determine_winner", player_a |-> player_a,
                     player_b |-> player_b, choice_a |-> choice_a,
                     choice_b |-> choice_b, drawn_number |-> given]
    /\ game_result' = <<determine_winner(player_a, player_b, choice_a, choice_b,
                                         IF given = None THEN drawn ELSE given[1])>>

\* a call create_technical_loss(player_a, player_b, losing_player, reason)
CreateTechnicalLoss(player_a, player_b, losing_player, reason) ==
    /\ game_call.method = "none"
    /\ game_call' = [method |-> "create_technical_loss", player_a |-> player_a,
                     player_b |-> player_b, losing_player |-> losing_player,
                     reason |-> reason]
    /\ game_result' = <<create_technical_loss(player_a, player_b, losing_player,
                                              reason)>>

(***************************************************************************)
(* Referee: the match runs of one referee                                  *)
(* (agents/referee_REF01/handlers.py, agents/referee_REF02/main.py)        *)
(*                                                                         *)
(* Each run of _run_match_async is a task of the event loop; a task takes  *)
(* one step from each awaited client.post to the next, and the steps of    *)
(* the tasks and of the announcement handler interleave.  The variables of *)
(* a task are functions of the task.  A dict is a function on its set of   *)
(* keys.                                                                   *)
(***************************************************************************)
\* the tasks the event loop can hold
TaskIds == {1, 2}

\* the matches a round holds, and player_A_id and player_B_id of each
MatchIds == {"M1", "M2"}
PlayersOf(match_id) == IF match_id = "M1" THEN <<"P01", "P02">> ELSE <<"P03", "P04">>
AllPlayers == UNION {Range(PlayersOf(match_id)) : match_id \in MatchIds}

\* player_a and player_b of the first match, in this order, and its match id
MatchId == "M1"
Participants == PlayersOf(MatchId)

\* the requests a referee receives: a ROUND_ANNOUNCEMENT with the matches
\* assigned to it, or a direct call of run_match
Announcement(matches) == [method |-> "ROUND_ANNOUNCEMENT", matches |-> matches]
RunMatchCall(match_id) == [method |-> "run_match", matches |-> <<match_id>>]

\* how an invitation ends: the reply (HTTP 200) carries accept = true, carries
\* accept = false, carries no accept field, cannot be parsed, or has another
\* status code, or the post times out or fails to connect
InviteReplies == {"accept", "decline", "no_field", "malformed", "http_error",
                  "timeout", "connect_error"}

\* what a participant answers to a choice request: a value of the field
\* parity_choice, or one of the failures
ChoiceValues == {"even", "odd", "EVEN", "maybe", ""}
ChoiceReplies == ChoiceValues \cup {"no_field", "http_error", "timeout", "connect_error"}

\* d[k] = v
Put(d, k, v) == [x \in DOMAIN d \cup {k} |-> IF x = k THEN v ELSE d[x]]

\* (variant: only an error makes an invitation fail)
AcceptedUnlessError(kind) == kind \in {"accept", "no_field", "decline"}
\* lines 320-336: the value of "accepted" in the result of _send_invitation
Accepted(kind) == kind \in {"accept", "no_field"}

\* (variant: any instead of all)
AnyAccepted(results) == \E q \in DOMAIN results : results[q]
\* line 180: all(r.get("accepted") for r in invite_results.values())
AllAccepted(results) == \A q \in DOMAIN results : results[q]

\* str.lower() on the sample of values
Lower(value) == IF value = "EVEN" THEN "even" ELSE value

\* (variant: the comparison is case-sensitive)
validate_choice_exact(choice) == choice \in Choices
\* validate_choice
validate_choice(choice) == Lower(choice) \in Choices

\* lines 426-453: the value _request_choice returns
ChoiceOf(kind) ==
    IF kind \in ChoiceValues /\ kind # "" /\ validate_choice(kind)
    THEN <<Lower(kind)>>
    ELSE None

\* (variant: the last participant that is one of failing)
LastFailing(pair, failing) == IF pair[2] \in failing THEN pair[2] ELSE pair[1]
\* the first participant of the pair, in the order of the dict, that is one
\* of failing
FirstFailing(pair, failing) == IF pair[1] \in failing THEN pair[1] ELSE pair[2]

\* (variant: the loop goes on after _finish_match)
FinishedForEach(pair, failing) == failing
\* lines 192-194 and 217-219: the failing participants for which the body of
\* the loop calls _finish_match; the run returns right after the first call
FinishedFor(pair, failing) == {FirstFailing(pair, failing)}

\* lines 190 and 215: the reason of the technical loss decided at a step
InvitationReason(loser) == <<"Player", loser, "did not respond to invitation">>
ChoiceReason(loser) == <<"Player", loser, "timed out on choice">>

\* (variant: an exception of a notification ends the run)
GoesOnIfDelivered(ok) == ok
\* lines 546-549 and 597-601: except Exception logs the error and the run
\* goes on
GoesOn(ok) == TRUE

\* the dict, if this writer writes it without holding its lock
WrittenWithout(lock, writer, dict) == IF lock = <<writer>> THEN {} ELSE {dict}

\* the two participants of the match a task runs
Pair(t) == PlayersOf(m_match[t])

\* the tasks not yet created, and the i-th of them
Unborn == {t \in TaskIds : m_pc[t] = "unborn"}
FreshTask(i) == CHOOSE t \in Unborn : Cardinality({u \in Unborn : u < t}) = i - 1

\* RefereeState.__init__: empty dicts and two locks nobody holds; no task
RefereeStart ==
    /\ player_endpoints = {}
    /\ active_matches = <<>>
    /\ matches_lock = None
    /\ endpoints_lock = None
    /\ m_match = [t \in TaskIds |-> "none"]
    /\ m_turn = [t \in TaskIds |-> 1]
    /\ invite_results = [t \in TaskIds |-> <<>>]
    /\ m_choices = [t \in TaskIds |-> <<>>]
    /\ m_game_result = [t \in TaskIds |-> None]
    /\ m_returned = [t \in TaskIds |-> None]
    /\ sent = [t \in TaskIds |-> <<>>]
    /\ invite_kind = [t \in TaskIds |-> <<>>]
    /\ notify_failed = [t \in TaskIds |-> {}]
    /\ report_failed = [t \in TaskIds |-> FALSE]
    /\ unlocked_writes = {}
    /\ finish_calls = [t \in TaskIds |-> 0]

\* a referee that is asked to run the one match, by an announcement or by a
\* call of run_match; each reply is chosen when it arrives
MatchInit ==
    /\ RefereeStart
    /\ config_players \in SUBSET Range(Participants)
    /\ intended \in [Range(Participants) -> ChoiceReplies]
    /\ replies = <<>>
    /\ pending \in {<<Announcement(<<MatchId>>)>>, <<RunMatchCall(MatchId)>>}
    /\ m_pc = [t \in TaskIds |-> "unborn"]

\* what a participant does in each step of a match, where it is fixed from
\* the start: it answers, answers an invalid value, accepts and then times
\* out, declines, or refuses every connection
Answers == [invitation |-> "accept", choice |-> "even", game_over |-> TRUE]
Refuses == [invitation |-> "connect_error", choice |-> "connect_error", game_over |-> FALSE]
Behaviours ==
    {Answers,
     [invitation |-> "accept", choice |-> "maybe", game_over |-> TRUE],
     [invitation |-> "accept", choice |-> "timeout", game_over |-> FALSE],
     [invitation |-> "decline", choice |-> "odd", game_over |-> TRUE],
     Refuses}

\* the behaviours of a participant: any for the participants of the first
\* match, two for the others
BehavioursOf(p) == IF p \in Range(Participants) THEN Behaviours ELSE {Answers, Refuses}

\* the requests of the league manager to a referee of two tasks: the
\* announcement of the first match sent twice, or one announcement of a
\* round of two matches
RefereeRequests ==
    {<<Announcement(<<MatchId>>), Announcement(<<MatchId>>)>>,
     <<Announcement(<<"M1", "M2">>)>>}

\* the participants of the matches of the requests
PlayersIn(requests) ==
    UNION {UNION {Range(PlayersOf(requests[i].matches[j])) :
                      j \in DOMAIN requests[i].matches} : i \in DOMAIN requests}

\* a referee that is sent one of RefereeRequests; every participant of the
\* matches is configured and keeps to one of its behaviours
RefereeInit ==
    /\ RefereeStart
    /\ pending \in RefereeRequests
    /\ config_players = AllPlayers
    /\ \E b \in [PlayersIn(pending) -> Behaviours] :
          /\ \A p \in PlayersIn(pending) : b[p] \in BehavioursOf(p)
          /\ intended = [p \in PlayersIn(pending) |-> b[p].choice]
          /\ replies = [p \in PlayersIn(pending) |->
                            [invitation |-> b[p].invitation,
                             game_over |-> b[p].game_over]]
    /\ m_pc = [t \in TaskIds |-> "unborn"]

\* no referee
MatchIdle ==
    /\ RefereeStart
    /\ config_players = {}
    /\ intended = <<>>
    /\ replies = <<>>
    /\ pending = <<>>
    /\ m_pc = [t \in TaskIds |-> "off"]

\* _handle_round_announcement: the endpoints are loaded and, for each match
\* of the announcement, the entry of the match is written and a task is
\* created
HandleRoundAnnouncement ==
    /\ pending # <<>>
    /\ Head(pending).method = "ROUND_ANNOUNCEMENT"
    /\ LET matches == Head(pending).matches
           created == {FreshTask(i) : i \in DOMAIN matches}
           MatchOf(t) == matches[CHOOSE i \in DOMAIN matches : FreshTask(i) = t]
       IN  /\ player_endpoints' = player_endpoints \cup config_players
           /\ active_matches' =
                  [x \in DOMAIN active_matches \cup Range(matches) |->
                      IF x \in Range(matches)
                      THEN [state |-> "WAITING_FOR_PLAYERS", result |-> None]
                      ELSE active_matches[x]]
           /\ m_pc' = [t \in TaskIds |-> IF t \in created THEN "invite" ELSE m_pc[t]]
           /\ m_match' = [t \in TaskIds |-> IF t \in created THEN MatchOf(t) ELSE m_match[t]]
           /\ unlocked_writes' = unlocked_writes
                  \cup (IF config_players = {} THEN {}
                        ELSE WrittenWithout(endpoints_lock, "handler", "player_endpoints"))
                  \cup (IF matches = <<>> THEN {}
                        ELSE WrittenWithout(matches_lock, "handler", "active_matches"))
    /\ pending' = Tail(pending)
    /\ UNCHANGED <<config_players, intended, replies, matches_lock, endpoints_lock,
                   m_turn, invite_results, m_choices, m_game_result, m_returned,
                   sent, invite_kind, notify_failed, report_failed, finish_calls>>

\* run_match: the endpoints are loaded and _run_match_async is awaited; no
\* entry is written to active_matches
RunMatch ==
    /\ pending # <<>>
    /\ Head(pending).method = "run_match"
    /\ player_endpoints' = player_endpoints \cup config_players
    /\ m_pc' = [m_pc EXCEPT ![FreshTask(1)] = "invite"]
    /\ m_match' = [m_match EXCEPT ![FreshTask(1)] = Head(pending).matches[1]]
    /\ unlocked_writes' = unlocked_writes
           \cup (IF config_players = {} THEN {}
                 ELSE WrittenWithout(endpoints_lock, "handler", "player_endpoints"))
    /\ pending' = Tail(pending)
    /\ UNCHANGED <<config_players, intended, replies, active_matches, matches_lock,
                   endpoints_lock, m_turn, invite_results, m_choices, m_game_result,
                   m_returned, sent, invite_kind, notify_failed, report_failed,
                   finish_calls>>

\* _finish_match up to its first await (lines 475-477)
BeginFinish(t, result) ==
    /\ m_game_result' = [m_game_result EXCEPT ![t] = <<result>>]
    /\ IF m_match[t] \in DOMAIN active_matches
       THEN /\ active_matches' = [active_matches EXCEPT ![m_match[t]] =
                                      [state |-> "FINISHED", result |-> <<result>>]]
            /\ unlocked_writes' = unlocked_writes
                   \cup WrittenWithout(matches_lock, t, "active_matches")
       ELSE UNCHANGED <<active_matches, unlocked_writes>>
    /\ m_pc' = [m_pc EXCEPT ![t] = "game_over"]
    /\ m_turn' = [m_turn EXCEPT ![t] = 1]

\* lines 278 and 180-198: the result of the participant at turn is stored; after the
\* second one either a technical loss is decided against the first
\* participant that has not accepted, or the match goes on to the choices
InvitationDone(t, kind, accepted) ==
    LET pid == Pair(t)[m_turn[t]]
        results == Put(invite_results[t], pid, accepted)
    IN  /\ invite_results' = [invite_results EXCEPT ![t] = results]
        /\ invite_kind' = [invite_kind EXCEPT ![t] = Put(invite_kind[t], pid, kind)]
        /\ IF m_turn[t] = 1
           THEN /\ m_turn' = [m_turn EXCEPT ![t] = 2]
                /\ m_pc' = [m_pc EXCEPT ![t] = "invite"]
                /\ UNCHANGED <<active_matches, m_game_result, unlocked_writes,
                               finish_calls>>
           ELSE IF ~AllAccepted(results)
           THEN LET failing == {q \in DOMAIN results : ~results[q]}
                    loser == FirstFailing(Pair(t), failing)
                IN  /\ BeginFinish(t, create_technical_loss(
                            Pair(t)[1], Pair(t)[2], loser, InvitationReason(loser)))
                    /\ finish_calls' = [finish_calls EXCEPT ![t] =
                            @ + Cardinality(FinishedFor(Pair(t), failing))]
           ELSE /\ IF m_match[t] \in DOMAIN active_matches
                   THEN /\ active_matches' = [active_matches EXCEPT
                                ![m_match[t]].state = "COLLECTING_CHOICES"]
                        /\ unlocked_writes' = unlocked_writes
                               \cup WrittenWithout(matches_lock, t, "active_matches")
                   ELSE UNCHANGED <<active_matches, unlocked_writes>>
                /\ m_pc' = [m_pc EXCEPT ![t] = "choice"]
                /\ m_turn' = [m_turn EXCEPT ![t] = 1]
                /\ UNCHANGED <<m_game_result, finish_calls>>

\* _send_invitation up to its await: without an endpoint the invitation fails
\* at once, otherwise it is posted
SendInvitation(t) ==
    /\ m_pc[t] = "invite"
    /\ IF Pair(t)[m_turn[t]] \notin player_endpoints
       THEN /\ InvitationDone(t, "no_endpoint", FALSE)
            /\ UNCHANGED sent
       ELSE /\ sent' = [sent EXCEPT ![t] =
                            Append(sent[t], <<"GAME_INVITATION", Pair(t)[m_turn[t]]>>)]
            /\ m_pc' = [m_pc EXCEPT ![t] = "invite_wait"]
            /\ UNCHANGED <<active_matches, m_turn, invite_results, m_game_result,
                           invite_kind, unlocked_writes, finish_calls>>
    /\ UNCHANGED <<config_players, intended, replies, pending, player_endpoints,
                   matches_lock, endpoints_lock, m_match, m_choices, m_returned,
                   notify_failed, report_failed>>

\* the awaited post of an invitation ends
InvitationReply(t, kind) ==
    /\ m_pc[t] = "invite_wait"
    /\ InvitationDone(t, kind, Accepted(kind))
    /\ UNCHANGED <<config_players, intended, replies, pending, player_endpoints,
                   matches_lock, endpoints_lock, m_match, m_choices, m_returned,
                   sent, notify_failed, report_failed>>

\* lines 373 and 208-237: the choice of the participant at turn is stored; after the
\* second one either a technical loss is decided against the first
\* participant without a choice, or the winner is determined with the number
\* drawn
ChoiceDone(t, choice, drawn) ==
    LET pid == Pair(t)[m_turn[t]]
        collected == Put(m_choices[t], pid, choice)
    IN  /\ m_choices' = [m_choices EXCEPT ![t] = collected]
        /\ IF m_turn[t] = 1
           THEN /\ m_turn' = [m_turn EXCEPT ![t] = 2]
                /\ m_pc' = [m_pc EXCEPT ![t] = "choice"]
                /\ UNCHANGED <<active_matches, m_game_result, unlocked_writes,
                               finish_calls>>
           ELSE IF \E q \in DOMAIN collected : collected[q] = None
           THEN LET failing == {q \in DOMAIN collected : collected[q] = None}
                    loser == FirstFailing(Pair(t), failing)
                IN  /\ BeginFinish(t, create_technical_loss(
                            Pair(t)[1], Pair(t)[2], loser, ChoiceReason(loser)))
                    /\ finish_calls' = [finish_calls EXCEPT ![t] =
                            @ + Cardinality(FinishedFor(Pair(t), failing))]
           ELSE /\ BeginFinish(t, determine_winner(
                        Pair(t)[1], Pair(t)[2],
                        collected[Pair(t)[1]][1], collected[Pair(t)[2]][1], drawn))
                /\ finish_calls' = [finish_calls EXCEPT ![t] = @ + 1]

\* _request_choice up to its await
RequestChoice(t) ==
    /\ m_pc[t] = "choice"
    /\ IF Pair(t)[m_turn[t]] \notin player_endpoints
       THEN /\ \E drawn \in MIN_NUMBER..MAX_NUMBER : ChoiceDone(t, None, drawn)
            /\ UNCHANGED sent
       ELSE /\ sent' = [sent EXCEPT ![t] =
                            Append(sent[t], <<"CHOOSE_PARITY_CALL", Pair(t)[m_turn[t]]>>)]
            /\ m_pc' = [m_pc EXCEPT ![t] = "choice_wait"]
            /\ UNCHANGED <<active_matches, m_turn, m_choices, m_game_result,
                           unlocked_writes, finish_calls>>
    /\ UNCHANGED <<config_players, intended, replies, pending, player_endpoints,
                   matches_lock, endpoints_lock, m_match, invite_results, m_returned,
                   invite_kind, notify_failed, report_failed>>

\* the awaited post of a choice request ends, with the participant's answer
ChoiceReply(t, drawn) ==
    /\ m_pc[t] = "choice_wait"
    /\ ChoiceDone(t, ChoiceOf(intended[Pair(t)[m_turn[t]]]), drawn)
    /\ UNCHANGED <<config_players, intended, replies, pending, player_endpoints,
                   matches_lock, endpoints_lock, m_match, invite_results, m_returned,
                   sent, invite_kind, notify_failed, report_failed>>

\* lines 529 and 483: after the participant at turn the loop of _send_game_over
\* goes to the other participant, and after both to the report
AfterGameOver(t) ==
    IF m_turn[t] = 1
    THEN /\ m_turn' = [m_turn EXCEPT ![t] = 2]
         /\ m_pc' = [m_pc EXCEPT ![t] = "game_over"]
    ELSE /\ m_turn' = [m_turn EXCEPT ![t] = 1]
         /\ m_pc' = [m_pc EXCEPT ![t] = "report"]

\* _send_game_over: the loop at the participant at turn (lines 529-542); a
\* participant without an endpoint is passed over
SendGameOver(t) ==
    /\ m_pc[t] = "game_over"
    /\ IF Pair(t)[m_turn[t]] \notin player_endpoints
       THEN /\ AfterGameOver(t)
            /\ UNCHANGED sent
       ELSE /\ sent' = [sent EXCEPT ![t] =
                            Append(sent[t], <<"GAME_OVER", Pair(t)[m_turn[t]]>>)]
            /\ m_pc' = [m_pc EXCEPT ![t] = "game_over_wait"]
            /\ UNCHANGED m_turn
    /\ UNCHANGED <<config_players, intended, replies, pending, player_endpoints,
                   active_matches, matches_lock, endpoints_lock, m_match,
                   invite_results, m_choices, m_game_result, m_returned, invite_kind,
                   notify_failed, report_failed,
                   unlocked_writes, finish_calls>>

\* the awaited post of a game-over notification ends, well or with an
\* exception, which is logged (lines 542-549)
GameOverReply(t, ok) ==
    /\ m_pc[t] = "game_over_wait"
    /\ notify_failed' =
            IF ok THEN notify_failed
            ELSE [notify_failed EXCEPT ![t] = @ \cup {Pair(t)[m_turn[t]]}]
    /\ IF GoesOn(ok)
       THEN AfterGameOver(t)
       ELSE /\ m_pc' = [m_pc EXCEPT ![t] = "raised"]
            /\ UNCHANGED m_turn
    /\ UNCHANGED <<config_players, intended, replies, pending, player_endpoints,
                   active_matches, matches_lock, endpoints_lock, m_match,
                   invite_results, m_choices, m_game_result, m_returned, sent,
                   invite_kind, report_failed,
                   unlocked_writes, finish_calls>>

\* _send_match_result_report up to its await
SendReport(t) ==
    /\ m_pc[t] = "report"
    /\ sent' = [sent EXCEPT ![t] =
                    Append(sent[t], <<"MATCH_RESULT_REPORT", "league_manager">>)]
    /\ m_pc' = [m_pc EXCEPT ![t] = "report_wait"]
    /\ UNCHANGED <<config_players, intended, replies, pending, player_endpoints,
                   active_matches, matches_lock, endpoints_lock, m_match, m_turn,
                   invite_results, m_choices, m_game_result, m_returned, invite_kind,
                   notify_failed, report_failed,
                   unlocked_writes, finish_calls>>

\* the awaited post of the report ends, with any status or an exception
\* (lines 590-601), and _run_match_async returns the result
ReportReply(t, ok) ==
    /\ m_pc[t] = "report_wait"
    /\ report_failed' = [report_failed EXCEPT ![t] = ~ok]
    /\ IF GoesOn(ok)
       THEN /\ m_pc' = [m_pc EXCEPT ![t] = "done"]
            /\ m_returned' = [m_returned EXCEPT ![t] = m_game_result[t]]
       ELSE /\ m_pc' = [m_pc EXCEPT ![t] = "raised"]
            /\ UNCHANGED m_returned
    /\ UNCHANGED <<config_players, intended, replies, pending, player_endpoints,
                   active_matches, matches_lock, endpoints_lock, m_match, m_turn,
                   invite_results, m_choices, m_game_result, sent, invite_kind,
                   notify_failed,
                   unlocked_writes, finish_calls>>

(***************************************************************************)
(* Resilient transport claims                                              *)
(***************************************************************************)
\* C13: a post consults the breaker first and is rejected exactly when the
\* breaker answers False, without changing the counter or the timestamp; a
\* rejected post makes no attempt, records nothing and returns None; nothing
\* is recorded and the breaker is left alone while the attempts of a post are
\* under way; the step that ends an admitted post records exactly once,
\* success when a response is returned and failure when None is returned.
C13_BreakerRetryComposition ==
    /\ [][posts' # posts =>
            /\ Calls("can_execute")
            /\ rejected' = (can_execute_result' = <<FALSE>>)
            /\ UNCHANGED <<failure_count, last_failure_time>>]_vars
    /\ [](rejected =>
            (cl_pc = "idle" /\ attempts = 0 /\ records = 0 /\ post_result = None))
    /\ [](cl_pc \in {"attempt", "sleep"} => records = 0)
    /\ [][(cl_pc # "idle" /\ cl_pc' # "idle") =>
            UNCHANGED <<state, failure_count, last_failure_time>>]_vars
    /\ [][(cl_pc # "idle" /\ cl_pc' = "idle") =>
            /\ records' = 1
            /\ Calls(IF post_result' # None THEN "record_success" ELSE "record_failure")
            /\ post_result' # None <=> last_outcome' = "response"]_vars

\* a post of several attempts has failed and the breaker has counted one failure
C13_Witness ==
    /\ cl_pc = "idle"
    /\ posts = 1
    /\ ~rejected
    /\ max_retries >= 1
    /\ attempts = max_retries + 1
    /\ records = 1
    /\ failure_count = 1
    /\ post_result = None

C15_OtherErrorsNotRetried == last_outcome = "other_error" => cl_pc = "idle"

(***************************************************************************)
(* Backoff delay claims                                                    *)
(***************************************************************************)
\* the un-jittered delay of the last call, and the client's max_delay
LastBase == Seconds(BaseDelay(backoff_strategy, initial_delay, delay_attempt))
Cap == Seconds(max_delay)

\* the base delay strictly increases with the attempt number
BaseIncreases ==
    \A k \in 0..(MaxAttempt - 1) :
        BaseDelay(backoff_strategy, initial_delay, k)
            < BaseDelay(backoff_strategy, initial_delay, k + 1)

\* C16 (as claimed): the base delay strictly increases with the attempt
\* number, and the value returned by _calculate_delay is no more than 25%
\* below and no more than 25% above the base delay and is at most max_delay.
C16_AsClaimed ==
    /\ BaseIncreases
    /\ delay # None =>
        /\ 4 * delay[1] >= 3 * LastBase
        /\ 4 * delay[1] <= 5 * LastBase
        /\ delay[1] <= Cap

\* C16 (amended): for initial_delay > 0 the base delay strictly increases
\* with the attempt number; the value returned by _calculate_delay is at most
\* max_delay and no more than 25% above the base delay, and it is no more
\* than 25% below the base delay unless max_delay is smaller than that, in
\* which case it is max_delay.
C16_BackoffBounds ==
    /\ initial_delay > 0 => BaseIncreases
    /\ delay # None =>
        /\ delay[1] <= Cap
        /\ 4 * delay[1] <= 5 * LastBase
        /\ IF 3 * LastBase <= 4 * Cap
           THEN 4 * delay[1] >= 3 * LastBase
           ELSE delay[1] = Cap

\* a call whose base delay is so far above max_delay that max_delay is returned
C16_Witness ==
    /\ delay # None
    /\ initial_delay > 0
    /\ 3 * LastBase > 4 * Cap
    /\ delay = <<Cap>>

\* two calls in a row of an exponential client, the second for a later
\* attempt no greater than 2 whose base delay is below max_delay
LaterUnclamped ==
    /\ backoff_strategy = "exponential"
    /\ delay # None
    /\ delay_attempt < delay_attempt'
    /\ delay_attempt' <= 2
    /\ BaseDelay(backoff_strategy, initial_delay, delay_attempt') < max_delay

\* C35 (as claimed): with the exponential strategy and base delays below
\* max_delay, the delay returned for a later attempt among 0, 1, 2 is
\* strictly greater than the delay returned for an earlier one, whatever the
\* two jitter draws.
C35_AsClaimed == [][LaterUnclamped => delay[1] < delay'[1]]_vars

\* C35 (amended): with the exponential strategy, initial_delay > 0 and base
\* delays below max_delay, the delay returned for a later attempt among
\* 0, 1, 2 is strictly greater than the delay returned for an earlier one,
\* whatever the two jitter draws.
C35_JitteredIncrease ==
    [][(LaterUnclamped /\ initial_delay > 0) => delay[1] < delay'[1]]_vars

\* attempt 2 of an exponential client with the lowest jitter draw, its base
\* delay below max_delay: the delay is 75% of four times initial_delay
C35_Witness ==
    /\ backoff_strategy = "exponential"
    /\ initial_delay > 0
    /\ delay_attempt = 2
    /\ random_draw = 0
    /\ LastBase < Cap
    /\ delay = <<3 * Seconds(initial_delay)>>

(***************************************************************************)
(* Game logic claims                                                       *)
(***************************************************************************)
\* n is twice an integer
IsEven(n) == \E m \in (-MaxDrawn)..MaxDrawn : n = 2 * m

\* C17: for two distinct participants A and B, choices in {even, odd} and
\* every drawn value, the result of determine_winner records the drawn value
\* (the one given, or one between 1 and 10), its parity and both choices; it
\* is WIN for A with scores {A:3, B:0} iff only A's choice is the parity, WIN
\* for B with scores {A:0, B:3} iff only B's is, and DRAW with no winner and
\* scores {A:1, B:1} iff both or neither are.
C17_OutcomeResolution ==
    (game_call.method = "determine_winner" /\ game_call.player_a # game_call.player_b) =>
        LET a == game_call.player_a
            b == game_call.player_b
            r == game_result[1]
            a_right == game_call.choice_a = r.number_parity
            b_right == game_call.choice_b = r.number_parity
        IN  /\ IF game_call.drawn_number = None
               THEN r.drawn_number \in 1..10
               ELSE r.drawn_number = game_call.drawn_number[1]
            /\ r.number_parity = IF IsEven(r.drawn_number) THEN "even" ELSE "odd"
            /\ DOMAIN r.choices = {a, b}
            /\ r.choices[a] = <<game_call.choice_a>>
            /\ r.choices[b] = <<game_call.choice_b>>
            /\ DOMAIN r.scores = {a, b}
            /\ r.status \in {"WIN", "DRAW"}
            /\ (a_right /\ ~b_right) <=>
                    /\ r.status = "WIN"
                    /\ r.winner_player_id = <<a>>
                    /\ r.scores[a] = 3
                    /\ r.scores[b] = 0
            /\ (b_right /\ ~a_right) <=>
                    /\ r.status = "WIN"
                    /\ r.winner_player_id = <<b>>
                    /\ r.scores[a] = 0
                    /\ r.scores[b] = 3
            /\ (a_right <=> b_right) <=>
                    /\ r.status = "DRAW"
                    /\ r.winner_player_id = None
                    /\ r.scores[a] = 1
                    /\ r.scores[b] = 1

\* B alone has chosen the parity of a drawn odd number
C17_Witness ==
    /\ game_call.method = "determine_winner"
    /\ game_call.player_a # game_call.player_b
    /\ game_call.drawn_number = None
    /\ game_result[1].drawn_number = 7
    /\ game_call.choice_a = "even"
    /\ game_call.choice_b = "odd"
    /\ game_result[1].winner_player_id = <<game_call.player_b>>

\* C18: create_technical_loss(a, b, losing, reason) with a # b and losing in
\* {a, b} returns status TECHNICAL_LOSS, the other participant as winner,
\* scores with exactly the keys a and b, 3 for the winner and 0 for the loser,
\* the drawn value 0 and the reason passed in.
C18_ForcedLoss ==
    (/\ game_call.method = "create_technical_loss"
     /\ game_call.player_a # game_call.player_b
     /\ game_call.losing_player \in {game_call.player_a, game_call.player_b}) =>
        LET r == game_result[1]
            loser == game_call.losing_player
            other == CHOOSE p \in {game_call.player_a, game_call.player_b} : p # loser
        IN  /\ r.status = "TECHNICAL_LOSS"
            /\ r.winner_player_id = <<other>>
            /\ DOMAIN r.scores = {game_call.player_a, game_call.player_b}
            /\ r.scores[other] = 3
            /\ r.scores[loser] = 0
            /\ r.drawn_number = 0
            /\ r.reason = game_call.reason

\* a forced loss of the second participant
C18_Witness ==
    /\ game_call.method = "create_technical_loss"
    /\ game_call.player_a # game_call.player_b
    /\ game_call.losing_player = game_call.player_b
    /\ game_result[1].winner_player_id = <<game_call.player_a>>

(***************************************************************************)
(* Match run claims                                                        *)
(***************************************************************************)
\* the tasks that run a match
Started == {t \in TaskIds : m_pc[t] \notin {"off", "unborn"}}

\* the positions of the log of task t at which a message of this kind was posted
Posted(t, message) == {i \in DOMAIN sent[t] : sent[t][i][1] = message}

\* task t posted the message to this receiver
PostedTo(t, message, receiver) ==
    \E i \in DOMAIN sent[t] : sent[t][i] = <<message, receiver>>

InvitationLoss(pair, winner, loser) ==
    [status |-> "TECHNICAL_LOSS",
     winner_player_id |-> <<winner>>,
     drawn_number |-> 0,
     number_parity |-> "even",
     choices |-> [q \in Range(pair) |-> None],
     reason |-> <<"Player", loser, "did not respond to invitation">>,
     scores |-> [q \in Range(pair) |-> IF q = winner THEN 3 ELSE 0]]

\* C20: once one participant's invitation has ended in a timeout, a
\* connection error, a reply with another status than 200 or a decline, and
\* the other participant has accepted, the outcome of the match is the
\* technical loss with the other participant as winner, whatever the two
\* participants intend to choose; the match is in its finishing steps, no
\* choice request has been posted and no choice is stored.
C20_InvitationFailure ==
    \A t \in Started : \A loser, winner \in Range(Pair(t)) :
        (/\ loser # winner
         /\ DOMAIN invite_kind[t] = Range(Pair(t))
         /\ invite_kind[t][loser] \in {"timeout", "connect_error", "http_error", "decline"}
         /\ invite_kind[t][winner] = "accept") =>
            /\ m_game_result[t] = <<InvitationLoss(Pair(t), winner, loser)>>
            /\ m_pc[t] \in {"game_over", "game_over_wait", "report", "report_wait", "done"}
            /\ m_pc[t] = "done" => m_returned[t] = m_game_result[t]
            /\ m_match[t] \in DOMAIN active_matches =>
                    active_matches[m_match[t]] =
                        [state |-> "FINISHED", result |-> m_game_result[t]]
            /\ Posted(t, "CHOOSE_PARITY_CALL") = {}
            /\ m_choices[t] = <<>>

\* the second participant has declined, the first one has accepted and would
\* have chosen a valid value, and the run has returned
C20_Witness ==
    \E t \in Started :
        /\ m_pc[t] = "done"
        /\ DOMAIN invite_kind[t] = Range(Pair(t))
        /\ invite_kind[t][Pair(t)[1]] = "accept"
        /\ invite_kind[t][Pair(t)[2]] = "decline"
        /\ intended[Pair(t)[1]] = "even"
        /\ m_returned[t] = <<InvitationLoss(Pair(t), Pair(t)[1], Pair(t)[2])>>

\* C21: a match run is at the choice collection only if the reply to each
\* of its two invitations carried an explicit affirmative acceptance; a
\* reply without an acceptance field is no acceptance.
C21_AffirmativeAcceptance ==
    \A t \in Started :
        (m_pc[t] \in {"choice", "choice_wait"} \/ Posted(t, "CHOOSE_PARITY_CALL") # {}) =>
            \A q \in Range(Pair(t)) :
                /\ q \in DOMAIN invite_kind[t]
                /\ invite_kind[t][q] = "accept"

\* the other participant of the match of task t
OtherOf(t, p) == IF p = Pair(t)[1] THEN Pair(t)[2] ELSE Pair(t)[1]

\* the participants of task t whose choice is stored as missing
Missing(t) == {q \in DOMAIN m_choices[t] : m_choices[t][q] = None}

\* the outcome of task t is a technical loss against loser
LostBy(t, loser) ==
    /\ m_game_result[t] # None
    /\ m_game_result[t][1].status = "TECHNICAL_LOSS"
    /\ m_game_result[t][1].winner_player_id = <<OtherOf(t, loser)>>
    /\ m_game_result[t][1].scores[loser] = LOSS_POINTS
    /\ m_game_result[t][1].scores[OtherOf(t, loser)] = WIN_POINTS

\* C22 as claimed: once both choices are collected, the match has ended as
\* a technical loss against every participant whose choice is missing, with
\* the other participant as winner.
C22_AsClaimed ==
    \A t \in Started :
        DOMAIN m_choices[t] = Range(Pair(t)) =>
            \A p \in Missing(t) : LostBy(t, p)

\* C22 (amended): a stored choice is the lower-cased value of a reply whose
\* value is even or odd when compared case-insensitively, and every other
\* reply (timeout, connection failure, non-200 reply, no value, invalid
\* value) is stored as missing; once both choices are collected and one is
\* missing the match has ended as a technical loss against the participant
\* whose choice is missing, against the first participant when both are
\* missing, with the other as winner; every WIN or DRAW has both recorded
\* choices in {even, odd}.
C22_ChoiceFailure ==
    \A t \in Started :
        /\ \A p \in DOMAIN m_choices[t] :
                m_choices[t][p] =
                    IF intended[p] \in {"even", "odd", "EVEN"}
                    THEN <<IF intended[p] = "odd" THEN "odd" ELSE "even">>
                    ELSE None
        /\ (DOMAIN m_choices[t] = Range(Pair(t)) /\ Missing(t) # {}) =>
                LostBy(t, IF Pair(t)[1] \in Missing(t) THEN Pair(t)[1] ELSE Pair(t)[2])
        /\ (m_game_result[t] # None /\ m_game_result[t][1].status \in {"WIN", "DRAW"}) =>
                /\ DOMAIN m_choices[t] = Range(Pair(t))
                /\ \A p \in Range(Pair(t)) :
                        /\ m_choices[t][p] \in {<<"even">>, <<"odd">>}
                        /\ m_game_result[t][1].choices[p] = m_choices[t][p]

\* the first participant has answered EVEN, stored as even, the second one
\* an invalid value, and the run has returned the technical loss against
\* the second
C22_Witness ==
    \E t \in Started :
        /\ m_pc[t] = "done"
        /\ intended[Pair(t)[1]] = "EVEN"
        /\ intended[Pair(t)[2]] = "maybe"
        /\ m_choices[t] = Dict2(Pair(t)[1], <<"even">>, Pair(t)[2], None)
        /\ LostBy(t, Pair(t)[2])
        /\ m_returned[t] = m_game_result[t]

\* C23: in the invitation step and in the choice step of a match run, while
\* the response of the first participant is awaited the request to the
\* second participant (one with a known endpoint) has already been posted.
C23_ConcurrentFanOut ==
    \A t \in Started :
        (m_turn[t] = 1 /\ Pair(t)[2] \in player_endpoints) =>
            /\ m_pc[t] = "invite_wait" => PostedTo(t, "GAME_INVITATION", Pair(t)[2])
            /\ m_pc[t] = "choice_wait" => PostedTo(t, "CHOOSE_PARITY_CALL", Pair(t)[2])

\* how many times task t posted the message to this receiver
Attempts(t, message, receiver) ==
    Cardinality({i \in DOMAIN sent[t] : sent[t][i] = <<message, receiver>>})

\* C24: a technical loss decided against a participant whose invitation or
\* choice request ended in a timeout or a connection error is never the
\* product of a single failed attempt: the request was posted again before
\* the participant was given up.  (The referee holds no circuit breaker, so
\* no call of its is rejected.)
C24_RetriesBeforeLoss ==
    \A t \in Started : \A p \in Range(Pair(t)) :
        m_game_result[t] # None =>
            /\ (/\ m_game_result[t][1].reason = InvitationReason(p)
                /\ invite_kind[t][p] \in {"timeout", "connect_error"}) =>
                    Attempts(t, "GAME_INVITATION", p) > 1
            /\ (/\ m_game_result[t][1].reason = ChoiceReason(p)
                /\ intended[p] \in {"timeout", "connect_error"}) =>
                    Attempts(t, "CHOOSE_PARITY_CALL", p) > 1

\* C26: the entry of a match in the table shows the terminal state only
\* when a run of that match has completed its attempt to report the outcome
\* to the league manager.
C26_TerminalAfterReport ==
    \A x \in DOMAIN active_matches :
        active_matches[x].state = "FINISHED" =>
            \E t \in Started : m_match[t] = x /\ m_pc[t] = "done"

Causes == {"timeout", "connection_error", "decline", "invalid_value", "other"}
InvitationCause(kind) ==
    CASE kind = "timeout" -> "timeout"
      [] kind = "connect_error" -> "connection_error"
      [] kind = "decline" -> "decline"
      [] OTHER -> "other"
ChoiceCause(reply) ==
    CASE reply = "timeout" -> "timeout"
      [] reply = "connect_error" -> "connection_error"
      [] reply \in {"maybe", "", "no_field"} -> "invalid_value"
      [] OTHER -> "other"

\* the reasons the referee gives to a technical loss against loser whose
\* cause is the given one
ReasonsFor(loser, cause) ==
    {InvitationReason(loser) : kind \in {k \in InviteReplies : InvitationCause(k) = cause}}
        \cup {ChoiceReason(loser) : reply \in {r \in ChoiceReplies : ChoiceCause(r) = cause}}

\* the participant the technical loss of task t is against, and its cause
LoserOf(t) == OtherOf(t, m_game_result[t][1].winner_player_id[1])
CauseOf(t) ==
    IF m_choices[t] = <<>>
    THEN InvitationCause(invite_kind[t][LoserOf(t)])
    ELSE ChoiceCause(intended[LoserOf(t)])

\* C28: the reason of a technical loss names the participant that failed,
\* and it is none of the reasons the referee gives to a technical loss
\* against that participant for another cause.
C28_ReasonTellsCause ==
    \A t \in Started :
        (m_game_result[t] # None /\ m_game_result[t][1].status = "TECHNICAL_LOSS") =>
            /\ \E i \in DOMAIN m_game_result[t][1].reason :
                    m_game_result[t][1].reason[i] = LoserOf(t)
            /\ \A cause \in Causes \ {CauseOf(t)} :
                    m_game_result[t][1].reason \notin ReasonsFor(LoserOf(t), cause)

\* C29: no entry of active_matches and no entry of player_endpoints is ever
\* created or changed by a handler or a match task that does not hold the
\* lock of that dict.
C29_WritesUnderLock == unlocked_writes = {}

\* how far a lifecycle state of the table is
LifecycleRank(lifecycle) ==
    CASE lifecycle = "WAITING_FOR_PLAYERS" -> 1
      [] lifecycle = "COLLECTING_CHOICES" -> 2
      [] lifecycle = "DRAWING_NUMBER" -> 3
      [] lifecycle = "FINISHED" -> 4

\* C25: no step of an announcement handler or of a match task removes the
\* entry of a match from the table or moves its state to an earlier one.
C25_ForwardOnly ==
    [][\A x \in DOMAIN active_matches :
            /\ x \in DOMAIN active_matches'
            /\ LifecycleRank(active_matches'[x].state) >= LifecycleRank(active_matches[x].state)]_vars

\* every started task whose match is x has returned
AllReturned(x) ==
    /\ \E t \in Started : m_match[t] = x
    /\ \A t \in Started : m_match[t] = x => m_pc[t] = "done"

\* C30: every match task that has been created returns, with an outcome and
\* after exactly one post of the report to the league manager, whatever the
\* participants and the league manager answer and whatever the other task
\* does; and whenever all tasks of a match have returned the entry of the
\* match shows the terminal state with an outcome.
C30_EveryMatchReports ==
    /\ \A t \in TaskIds :
            (m_pc[t] = "invite") ~>
                (/\ m_pc[t] = "done"
                 /\ m_returned[t] # None
                 /\ Attempts(t, "MATCH_RESULT_REPORT", "league_manager") = 1)
    /\ [](\A x \in DOMAIN active_matches :
            AllReturned(x) =>
                /\ active_matches[x].state = "FINISHED"
                /\ active_matches[x].result # None)

\* two matches have run at the same time on the referee: the one has ended
\* as a technical loss, the other one as a draw, and both have returned
\* although both reports have failed
C30_Witness ==
    /\ \A t \in TaskIds : m_pc[t] = "done" /\ report_failed[t]
    /\ m_match[1] # m_match[2]
    /\ \E t, u \in TaskIds :
            /\ m_returned[t][1].status = "TECHNICAL_LOSS"
            /\ m_returned[u][1].status = "DRAW"

\* C33: once both invitations of a match run have failed, in whatever way
\* each of them failed, the one outcome of the run is the technical loss
\* against the first participant, with the invitation reason and the second
\* participant as winner; once both choices are missing, in whatever way,
\* it is the technical loss against the first participant with the choice
\* reason; and the run posts no more than one report.
C33_BothFail ==
    \A t \in Started :
        /\ (/\ DOMAIN invite_results[t] = Range(Pair(t))
            /\ \A q \in Range(Pair(t)) : ~invite_results[t][q]) =>
                /\ LostBy(t, Pair(t)[1])
                /\ m_game_result[t][1].reason = InvitationReason(Pair(t)[1])
        /\ (/\ DOMAIN m_choices[t] = Range(Pair(t))
            /\ Missing(t) = Range(Pair(t))) =>
                /\ LostBy(t, Pair(t)[1])
                /\ m_game_result[t][1].reason = ChoiceReason(Pair(t)[1])
        /\ Attempts(t, "MATCH_RESULT_REPORT", "league_manager") <= 1
        /\ m_pc[t] = "done" => m_returned[t] = m_game_result[t]

\* the second participant's choice request has failed to connect, the first
\* one's has timed out, and the run has returned the loss of the first
C33_Witness ==
    \E t \in Started :
        /\ m_pc[t] = "done"
        /\ intended[Pair(t)[1]] = "timeout"
        /\ intended[Pair(t)[2]] = "connect_error"
        /\ Missing(t) = Range(Pair(t))
        /\ LostBy(t, Pair(t)[1])
        /\ m_returned[t][1].reason = ChoiceReason(Pair(t)[1])

\* C36: a match run that has returned has called _finish_match exactly
\* once, its outcome is stored, it has posted no more than one game-over
\* notification to each participant and exactly one report to the league
\* manager; and no run calls _finish_match twice.
C36_OneResult ==
    \A t \in Started :
        /\ finish_calls[t] <= 1
        /\ finish_calls[t] = 1 <=> m_game_result[t] # None
        /\ \A q \in Range(Pair(t)) : Attempts(t, "GAME_OVER", q) <= 1
        /\ Attempts(t, "MATCH_RESULT_REPORT", "league_manager") <= 1
        /\ m_pc[t] = "done" =>
                /\ finish_calls[t] = 1
                /\ m_returned[t] = m_game_result[t]
                /\ Attempts(t, "MATCH_RESULT_REPORT", "league_manager") = 1
                /\ m_match[t] \in DOMAIN active_matches =>
                        active_matches[m_match[t]].result = m_returned[t]

\* a run in which both invitations have failed has returned
C36_Witness ==
    \E t \in Started :
        /\ m_pc[t] = "done"
        /\ finish_calls[t] = 1
        /\ \A q \in Range(Pair(t)) : invite_kind[t][q] = "timeout"
        /\ Len(sent[t]) = 5

(***************************************************************************)
(* Circuit breaker: counter invariant                                      *)
(***************************************************************************)
\* C39: in every state reached by calls of can_execute, record_success and
\* record_failure on a breaker with failure_threshold >= 1, a CLOSED breaker
\* has 0 <= failure_count < failure_threshold, and an OPEN or HALF_OPEN
\* breaker has a last-failure timestamp.
C39_CounterInvariant ==
    /\ state = "CLOSED" => (0 <= failure_count /\ failure_count < failure_threshold)
    /\ state \in {"OPEN", "HALF_OPEN"} => last_failure_time # None

\* a trial request has just succeeded: the breaker went from HALF_OPEN to
\* CLOSED, its counter is 0 and the timestamp of the last failure is kept
C39_Witness ==
    /\ last_call = "record_success"
    /\ prev_state = "HALF_OPEN"
    /\ state = "CLOSED"
    /\ failure_count = 0
    /\ last_failure_time # None

(***************************************************************************)
(* Game logic: symmetry of the resolution                                  *)
(***************************************************************************)
RECURSIVE TotalOver(_, _)
\* the sum of the values of the dict scores over the keys in keys
TotalOver(scores, keys) ==
    IF keys = {} THEN 0
    ELSE LET k == CHOOSE x \in keys : TRUE
         IN  scores[k] + TotalOver(scores, keys \ {k})

\* the sum of all the scores of a result
ScoreTotal(r) == TotalOver(r.scores, DOMAIN r.scores)

\* C40: for a # b, the result of determine_winner(a, b, ca, cb, d) has the
\* same status, the same winner and the same score for each participant as
\* determine_winner(b, a, cb, ca, d); and every result of determine_winner or
\* create_technical_loss for a # b has scores that sum to 3 when the status is
\* WIN or TECHNICAL_LOSS and to 2 when it is DRAW, and has no winner exactly
\* when the status is DRAW.
C40_Symmetric ==
    (game_call.method \in {"determine_winner", "create_technical_loss"}
        /\ game_call.player_a # game_call.player_b) =>
        LET r == game_result[1]
        IN  /\ (game_call.method = "determine_winner" /\ game_call.drawn_number # None) =>
                   LET a == game_call.player_a
                       b == game_call.player_b
                       swapped == determine_winner(b, a, game_call.choice_b,
                                                   game_call.choice_a,
                                                   game_call.drawn_number[1])
                   IN  /\ swapped.status = r.status
                       /\ swapped.winner_player_id = r.winner_player_id
                       /\ DOMAIN swapped.scores = DOMAIN r.scores
                       /\ swapped.scores[a] = r.scores[a]
                       /\ swapped.scores[b] = r.scores[b]
            /\ r.status \in {"WIN", "TECHNICAL_LOSS"} => ScoreTotal(r) = 3
            /\ r.status = "DRAW" => ScoreTotal(r) = 2
            /\ r.winner_player_id = None <=> r.status = "DRAW"

\* the second participant alone guessed the parity of the given number: the
\* call with the participants swapped decides it in its first branch
C40_Witness ==
    /\ game_call.method = "determine_winner"
    /\ game_call.player_a # game_call.player_b
    /\ game_call.drawn_number = <<7>>
    /\ game_call.choice_a = "even"
    /\ game_call.choice_b = "odd"
    /\ game_result[1].status = "WIN"
    /\ game_result[1].winner_player_id = <<game_call.player_b>>
    /\ game_result[1].scores[game_call.player_b] = 3

(***************************************************************************)
(* ThreadSafeCounter (SHARED/league_sdk/parallel.py)                       *)
(*                                                                         *)
(* Threads call increment, decrement and get_value.  A thread may be       *)
(* preempted between any two steps of a call: taking the lock, loading     *)
(* self._value, storing the new value, reading the value to return and     *)
(* releasing the lock on leaving the with block.                           *)
(***************************************************************************)
\* the largest initial value and amount, and how many calls a thread makes
MaxInitial == 1
MaxAmount == 2
MaxCalls == 2

CounterThreads == {1, 2}
CounterMethods == {"increment", "decrement", "get_value"}

\* (variant: the with block is entered whoever holds the lock)
LockIgnored(lock) == TRUE
\* lines 97, 111, 117: with self._lock blocks while another thread holds the lock
LockFree(lock) == lock = None

\* += amount (line 98) or -= amount (line 112)
Updated(method, value, amount) ==
    IF method = "increment" THEN value + amount ELSE value - amount

\* __init__
CounterInit ==
    /\ c_initial \in 0..MaxInitial
    /\ c_value = c_initial
    /\ c_lock = None
    /\ c_pc = [t \in CounterThreads |-> "idle"]
    /\ c_call = [t \in CounterThreads |-> [method |-> "none", amount |-> 0]]
    /\ c_loaded = [t \in CounterThreads |-> 0]
    /\ c_result = [t \in CounterThreads |-> None]
    /\ c_after = [t \in CounterThreads |-> None]
    /\ c_calls = [t \in CounterThreads |-> 0]
    /\ c_net = 0

\* no counter in use
CounterIdle ==
    /\ c_initial = 0
    /\ c_value = 0
    /\ c_lock = None
    /\ c_pc = [t \in CounterThreads |-> "off"]
    /\ c_call = [t \in CounterThreads |-> [method |-> "none", amount |-> 0]]
    /\ c_loaded = [t \in CounterThreads |-> 0]
    /\ c_result = [t \in CounterThreads |-> None]
    /\ c_after = [t \in CounterThreads |-> None]
    /\ c_calls = [t \in CounterThreads |-> 0]
    /\ c_net = 0

\* thread t calls increment(amount), decrement(amount) or get_value()
CallCounter(t, method, amount) ==
    /\ c_pc[t] = "idle"
    /\ c_calls[t] < MaxCalls
    /\ c_pc' = [c_pc EXCEPT ![t] = "acquire"]
    /\ c_call' = [c_call EXCEPT ![t] = [method |-> method, amount |-> amount]]
    /\ c_result' = [c_result EXCEPT ![t] = None]
    /\ c_after' = [c_after EXCEPT ![t] = None]
    /\ c_calls' = [c_calls EXCEPT ![t] = @ + 1]
    /\ c_net' = IF method = "get_value" THEN c_net ELSE Updated(method, c_net, amount)
    /\ UNCHANGED <<c_initial, c_value, c_lock, c_loaded>>

\* with self._lock: the thread enters the block
AcquireLock(t) ==
    /\ c_pc[t] = "acquire"
    /\ LockFree(c_lock)
    /\ c_lock' = <<t>>
    /\ c_pc' = [c_pc EXCEPT ![t] = IF c_call[t].method = "get_value"
                                   THEN "return" ELSE "load"]
    /\ UNCHANGED <<c_initial, c_value, c_call, c_loaded, c_result, c_after,
                   c_calls, c_net>>

\* self._value += amount, first half: the value is loaded
LoadValue(t) ==
    /\ c_pc[t] = "load"
    /\ c_loaded' = [c_loaded EXCEPT ![t] = c_value]
    /\ c_pc' = [c_pc EXCEPT ![t] = "store"]
    /\ UNCHANGED <<c_initial, c_value, c_lock, c_call, c_result, c_after,
                   c_calls, c_net>>

\* self._value += amount, second half: the sum is stored
StoreValue(t) ==
    /\ c_pc[t] = "store"
    /\ c_value' = Updated(c_call[t].method, c_loaded[t], c_call[t].amount)
    /\ c_after' = [c_after EXCEPT ![t] = <<c_value'>>]
    /\ c_loaded' = [c_loaded EXCEPT ![t] = 0]
    /\ c_pc' = [c_pc EXCEPT ![t] = "return"]
    /\ UNCHANGED <<c_initial, c_lock, c_call, c_result, c_calls, c_net>>

\* return self._value: the value to return is read
ReturnValue(t) ==
    /\ c_pc[t] = "return"
    /\ c_result' = [c_result EXCEPT ![t] = <<c_value>>]
    /\ c_pc' = [c_pc EXCEPT ![t] = "release"]
    /\ UNCHANGED <<c_initial, c_value, c_lock, c_call, c_loaded, c_after,
                   c_calls, c_net>>

\* the with block is left: the lock is released and the call returns
ReleaseLock(t) ==
    /\ c_pc[t] = "release"
    /\ c_lock' = None
    /\ c_pc' = [c_pc EXCEPT ![t] = "idle"]
    /\ UNCHANGED <<c_initial, c_value, c_call, c_loaded, c_result, c_after,
                   c_calls, c_net>>

(***************************************************************************)
(* ThreadSafeCounter claims                                                *)
(***************************************************************************)
\* the threads in the middle of an increment or a decrement
Updating == {t \in CounterThreads :
                c_pc[t] \notin {"idle", "off"} /\ c_call[t].method # "get_value"}

\* C31: a get_value() that returns while no increment or decrement is under
\* way returns the initial value plus the amounts of all increments minus the
\* amounts of all decrements made, and an increment or decrement returns the
\* value the counter had right after its own update.
C31_NoLostUpdate ==
    \A t \in CounterThreads :
        c_result[t] # None =>
            IF c_call[t].method = "get_value"
            THEN (c_pc[t] = "release" /\ Updating = {}) =>
                     c_result[t] = <<c_initial + c_net>>
            ELSE c_result[t] = c_after[t]

\* every thread has made its calls, the last of thread 2 a decrement, and the
\* get_value() of thread 1 that follows returns the initial value and the net
\* amount
C31_Witness ==
    /\ c_calls = [t \in CounterThreads |-> MaxCalls]
    /\ c_call[1] = [method |-> "get_value", amount |-> 0]
    /\ c_pc[1] = "release"
    /\ c_call[2].method = "decrement"
    /\ c_pc[2] = "idle"
    /\ c_result[1] = <<c_initial + c_net>>
    /\ c_net # 0

(***************************************************************************)
(* WorkerPool (SHARED/league_sdk/parallel.py)                              *)
(*                                                                         *)
(* One thread, the caller, calls start, submit, stop and get_results; the  *)
(* worker threads run _worker.  A task is a dict with a task_id; the       *)
(* handler returns twice the id or raises.  queue.Queue counts the tasks   *)
(* put and not yet marked done, and join() blocks until the count is 0.    *)
(* The duration of a task is left out of its TaskResult.                   *)
(***************************************************************************)
\* the largest num_workers, and how many tasks the caller has to submit
MaxWorkers == 2
MaxTasks == 2

\* the threads a start() can create, and the tasks the caller submits
PoolThreads == 1..MaxWorkers
PoolTasks == 1..MaxTasks

\* the handler's return value and the text of the exception it raises
HandlerValue(task) == 2 * task
HandlerError == "handler failed"

\* lines 520-525 and 528-533: the TaskResult a worker puts, task_id=str(task_id)
TaskResult(task, raises) ==
    IF raises
    THEN [task_id |-> ToString(task), success |-> FALSE, result |-> None,
          error |-> <<HandlerError>>]
    ELSE [task_id |-> ToString(task), success |-> TRUE, result |-> <<HandlerValue(task)>>,
          error |-> None]

\* (variant: get leaves the task at the head of the queue)
HeadKept(q) == q
\* line 247: the task got is removed from the queue
TailAfterGet(q) == Tail(q)

\* the worker threads not yet created
Uncreated == {w \in PoolThreads : w_pc[w] = "unborn"}

\* __init__
PoolInit ==
    /\ num_workers \in 1..MaxWorkers
    /\ pool_running = FALSE
    /\ pool_workers = {}
    /\ task_queue = <<>>
    /\ unfinished_tasks = 0
    /\ result_queue = <<>>
    /\ pool_pc = "idle"
    /\ stop_wait = FALSE
    /\ w_pc = [w \in PoolThreads |-> "unborn"]
    /\ w_task = [w \in PoolThreads |-> None]
    /\ last_pool_call = "none"
    /\ submitted = {}
    /\ taken = [k \in PoolTasks |-> {}]
    /\ handled = [k \in PoolTasks |-> 0]
    /\ results_put = <<>>

\* no pool in use
PoolIdle ==
    /\ num_workers = 1
    /\ pool_running = FALSE
    /\ pool_workers = {}
    /\ task_queue = <<>>
    /\ unfinished_tasks = 0
    /\ result_queue = <<>>
    /\ pool_pc = "off"
    /\ stop_wait = FALSE
    /\ w_pc = [w \in PoolThreads |-> "unborn"]
    /\ w_task = [w \in PoolThreads |-> None]
    /\ last_pool_call = "none"
    /\ submitted = {}
    /\ taken = [k \in PoolTasks |-> {}]
    /\ handled = [k \in PoolTasks |-> 0]
    /\ results_put = <<>>

\* start(): nothing on a running pool, else num_workers new threads
PoolStart ==
    /\ pool_pc = "idle"
    /\ IF pool_running
       THEN /\ last_pool_call' = "start_ignored"
            /\ UNCHANGED <<pool_running, pool_workers, w_pc>>
       ELSE /\ Cardinality(Uncreated) >= num_workers
            /\ \E new \in SUBSET Uncreated :
                  /\ Cardinality(new) = num_workers
                  /\ \A w \in new, v \in Uncreated \ new : w < v
                  /\ pool_workers' = new
                  /\ w_pc' = [w \in PoolThreads |-> IF w \in new THEN "loop" ELSE w_pc[w]]
            /\ pool_running' = TRUE
            /\ last_pool_call' = "start"
    /\ UNCHANGED <<num_workers, task_queue, unfinished_tasks, result_queue, pool_pc,
                   stop_wait, w_task, submitted, taken, handled, results_put>>

\* submit(task): RuntimeError on a pool that is not running, else the task is put
PoolSubmit(task) ==
    /\ pool_pc = "idle"
    /\ task \notin submitted
    /\ IF ~pool_running
       THEN /\ last_pool_call' = "submit_raised"
            /\ UNCHANGED <<task_queue, unfinished_tasks, submitted>>
       ELSE /\ task_queue' = Append(task_queue, task)
            /\ unfinished_tasks' = unfinished_tasks + 1
            /\ submitted' = submitted \cup {task}
            /\ last_pool_call' = "submit"
    /\ UNCHANGED <<num_workers, pool_running, pool_workers, result_queue, pool_pc,
                   stop_wait, w_pc, w_task, taken, handled, results_put>>

\* stop(wait): line 566, self._running = False, then the wait for the queue
\* or for the workers
PoolStop(wait) ==
    /\ pool_pc = "idle"
    /\ pool_running' = FALSE
    /\ stop_wait' = wait
    /\ pool_pc' = IF wait THEN "join" ELSE "join_workers"
    /\ last_pool_call' = "stop"
    /\ UNCHANGED <<num_workers, pool_workers, task_queue, unfinished_tasks,
                   result_queue, w_pc, w_task, submitted, taken, handled, results_put>>

\* line 569: self.task_queue.join() returns once no task is unfinished
JoinQueue ==
    /\ pool_pc = "join"
    /\ unfinished_tasks = 0
    /\ pool_pc' = "join_workers"
    /\ UNCHANGED <<num_workers, pool_running, pool_workers, task_queue, unfinished_tasks,
                   result_queue, stop_wait, w_pc, w_task, last_pool_call, submitted,
                   taken, handled, results_put>>

\* lines 571-574: each worker is joined for at most a second, then the list is
\* cleared and stop returns
JoinWorkers ==
    /\ pool_pc = "join_workers"
    /\ pool_workers' = {}
    /\ pool_pc' = "idle"
    /\ last_pool_call' = "stopped"
    /\ UNCHANGED <<num_workers, pool_running, task_queue, unfinished_tasks,
                   result_queue, stop_wait, w_pc, w_task, submitted, taken, handled,
                   results_put>>

\* get_results(): every TaskResult on the result queue is taken off it
GetResults ==
    /\ pool_pc = "idle"
    /\ result_queue # <<>>
    /\ result_queue' = <<>>
    /\ last_pool_call' = "get_results"
    /\ UNCHANGED <<num_workers, pool_running, pool_workers, task_queue,
                   unfinished_tasks, pool_pc, stop_wait, w_pc, w_task, submitted,
                   taken, handled, results_put>>

\* line 506: while self._running
WorkerLoop(w) ==
    /\ w_pc[w] = "loop"
    /\ w_pc' = [w_pc EXCEPT ![w] = IF pool_running THEN "get" ELSE "exited"]
    /\ UNCHANGED <<num_workers, pool_running, pool_workers, task_queue,
                   unfinished_tasks, result_queue, pool_pc, stop_wait, w_task,
                   last_pool_call, submitted, taken, handled, results_put>>

\* line 508: task_queue.get(block=True, timeout=0.1) returns the head of the
\* queue, or raises queue.Empty when the queue stays empty
WorkerGet(w) ==
    /\ w_pc[w] = "get"
    /\ IF task_queue = <<>>
       THEN /\ w_pc' = [w_pc EXCEPT ![w] = "loop"]
            /\ UNCHANGED <<task_queue, w_task, taken>>
       ELSE /\ w_task' = [w_task EXCEPT ![w] = <<Head(task_queue)>>]
            /\ task_queue' = TailAfterGet(task_queue)
            /\ taken' = [taken EXCEPT ![Head(task_queue)] = @ \cup {w}]
            /\ w_pc' = [w_pc EXCEPT ![w] = "handle"]
    /\ UNCHANGED <<num_workers, pool_running, pool_workers, unfinished_tasks,
                   result_queue, pool_pc, stop_wait, last_pool_call, submitted,
                   handled, results_put>>

\* lines 513-533: the handler is called and its TaskResult is put
WorkerHandle(w, raises) ==
    /\ w_pc[w] = "handle"
    /\ handled' = [handled EXCEPT ![w_task[w][1]] = @ + 1]
    /\ result_queue' = Append(result_queue, TaskResult(w_task[w][1], raises))
    /\ results_put' = Append(results_put, TaskResult(w_task[w][1], raises))
    /\ w_pc' = [w_pc EXCEPT ![w] = "task_done"]
    /\ UNCHANGED <<num_workers, pool_running, pool_workers, task_queue,
                   unfinished_tasks, pool_pc, stop_wait, w_task, last_pool_call,
                   submitted, taken>>

\* lines 534-535: finally self.task_queue.task_done()
WorkerTaskDone(w) ==
    /\ w_pc[w] = "task_done"
    /\ unfinished_tasks' = unfinished_tasks - 1
    /\ w_task' = [w_task EXCEPT ![w] = None]
    /\ w_pc' = [w_pc EXCEPT ![w] = "loop"]
    /\ UNCHANGED <<num_workers, pool_running, pool_workers, task_queue, result_queue,
                   pool_pc, stop_wait, last_pool_call, submitted, taken, handled,
                   results_put>>

\* a step of the worker thread w
WorkerStep(w) ==
    \/ WorkerLoop(w)
    \/ WorkerGet(w)
    \/ \E raises \in BOOLEAN : WorkerHandle(w, raises)
    \/ WorkerTaskDone(w)

(***************************************************************************)
(* WorkerPool claims                                                       *)
(***************************************************************************)
\* the tasks whose handling is over: the handler was called and no worker
\* holds the task any more
Processed ==
    {k \in submitted : handled[k] > 0 /\ \A w \in PoolThreads : w_task[w] # <<k>>}

\* a stop(wait=True) is past its wait for the queue, or has returned
WaitOver ==
    /\ stop_wait
    /\ \/ pool_pc = "join_workers"
       \/ pool_pc = "idle" /\ last_pool_call = "stopped"

\* C32: a stop(wait=True) called while tasks are queued or running gets past
\* its wait only when every task submitted has been processed, and every
\* stop(wait=True) that is called returns.
C32_StopWaits ==
    /\ [](WaitOver => Processed = submitted)
    /\ (pool_pc = "join") ~> (pool_pc = "idle")

\* the TaskResults put on the result queue for the task k
ResultsOf(k) == {i \in DOMAIN results_put : results_put[i].task_id = ToString(k)}

\* the accounting of the task k
Accounted(k) ==
    /\ Cardinality(taken[k]) <= 1
    /\ handled[k] <= 1
    /\ Cardinality(ResultsOf(k)) = handled[k]
    /\ taken[k] # {} => k \in submitted
    /\ k \in Processed => (Cardinality(taken[k]) = 1 /\ handled[k] = 1)
    /\ \A i \in ResultsOf(k) :
          \/ results_put[i] = [task_id |-> ToString(k), success |-> TRUE,
                               result |-> <<HandlerValue(k)>>, error |-> None]
          \/ results_put[i] = [task_id |-> ToString(k), success |-> FALSE,
                               result |-> None, error |-> <<HandlerError>>]

MaxRegistered == 4
MaxAnnounces == 4
MaxReports == 4

\* the ids the league manager gives the first n players: P01, P02, ...
LeaguePlayers(n) == SubSeq(AllIds, 2, n + 1)

\* standings_repo.reset() (handlers.py line 319): rounds_completed of the
\* standings of a new league
ResetStandings(rounds) == 0

\* line 277: matches_per_round = len(self.state.registered_players) // 2
MatchesPerRound(players) == Len(players) \div 2

\* line 278: if self.state.matches_completed_this_round >= matches_per_round
RoundOver(count, per_round) == count >= per_round

\* LeagueState.__init__, and the registrations
LeagueInit ==
    /\ registered_players \in {LeaguePlayers(n) : n \in 1..MaxRegistered}
    /\ registered_referees \in {{}, {"REF01"}}
    /\ lg_schedule = <<>>
    /\ current_round = 0
    /\ matches_completed_this_round = 0
    /\ rounds_completed = 0
    /\ lg_pc = "registered"
    /\ lg_last = "none"
    /\ announced = {}
    /\ reported = {}
    /\ completed_log = <<>>
    /\ announces = 0
    /\ reports = 0

\* no league manager
LeagueIdle ==
    /\ registered_players = <<>>
    /\ registered_referees = {}
    /\ lg_schedule = <<>>
    /\ current_round = 0
    /\ matches_completed_this_round = 0
    /\ rounds_completed = 0
    /\ lg_pc = "off"
    /\ lg_last = "none"
    /\ announced = {}
    /\ reported = {}
    /\ completed_log = <<>>
    /\ announces = 0
    /\ reports = 0

\* handle_start_league
StartLeague ==
    /\ lg_pc = "registered"
    /\ IF Len(registered_players) < 2
       THEN /\ lg_last' = "start_error"
            /\ UNCHANGED <<lg_schedule, current_round, rounds_completed, lg_pc>>
       ELSE /\ rounds_completed' = ResetStandings(rounds_completed)
            /\ lg_schedule' = create_schedule(registered_players)
            /\ current_round' = 0
            /\ lg_pc' = "started"
            /\ lg_last' = "started"
    /\ UNCHANGED <<registered_players, registered_referees,
                   matches_completed_this_round, announced, reported,
                   completed_log, announces, reports>>

\* handle_announce_round
AnnounceRound ==
    /\ lg_pc \in {"registered", "started"}
    /\ announces < MaxAnnounces
    /\ announces' = announces + 1
    /\ current_round' = current_round + 1
    /\ matches_completed_this_round' = 0
    /\ IF current_round' - 1 >= Len(lg_schedule)
       THEN lg_last' = "announce_error" /\ UNCHANGED announced
       ELSE IF registered_referees = {}
       THEN lg_last' = "announce_error" /\ UNCHANGED announced
       ELSE lg_last' = "announced" /\ announced' = announced \cup {current_round'}
    /\ UNCHANGED <<registered_players, registered_referees, lg_schedule,
                   rounds_completed, lg_pc, reported, completed_log, reports>>

\* handle_match_result_report for the match <<round, index>>, from a referee
\* whose auth_token is or is not the one it registered with
MatchResultReport(round, index, token_ok) ==
    /\ lg_pc \in {"registered", "started"}
    /\ reports < MaxReports
    /\ reports' = reports + 1
    /\ IF ~token_ok
       THEN /\ lg_last' = "report_rejected"
            /\ UNCHANGED <<matches_completed_this_round, rounds_completed, reported,
                           completed_log>>
       ELSE /\ lg_last' = "report"
            /\ reported' = reported \cup {<<round, index>>}
            /\ matches_completed_this_round' = matches_completed_this_round + 1
            /\ IF RoundOver(matches_completed_this_round',
                            MatchesPerRound(registered_players))
               THEN /\ rounds_completed' = rounds_completed + 1
                    /\ completed_log' = Append(completed_log, current_round)
               ELSE UNCHANGED <<rounds_completed, completed_log>>
    /\ UNCHANGED <<registered_players, registered_referees, lg_schedule,
                   current_round, lg_pc, announced, announces>>

(***************************************************************************)
(* League manager claims                                                   *)
(***************************************************************************)
\* every match of the round r has reported
AllReported(r) == \A i \in DOMAIN lg_schedule[r] : <<r, i>> \in reported

\* how many ROUND_COMPLETED broadcasts carry the round id r
CompletedSent(r) == Cardinality({i \in DOMAIN completed_log : completed_log[i] = r})

\* C37: for each announced round, ROUND_COMPLETED is broadcast and
\* rounds_completed incremented once when every match of the round has
\* reported and not before, whatever reports arrive in whatever order: every
\* broadcast is for an announced round, and rounds_completed is the number of
\* announced rounds all of whose matches have reported.
C37_RoundCompletedOnce ==
    /\ \A r \in announced :
          /\ CompletedSent(r) <= 1
          /\ CompletedSent(r) = 1 <=> AllReported(r)
    /\ \A i \in DOMAIN completed_log : completed_log[i] \in announced
    /\ rounds_completed = Cardinality({r \in announced : AllReported(r)})

\* C38: an announce_round call that ends in an error leaves current_round and
\* matches_completed_this_round as they were, and current_round never
\* exceeds the number of rounds of the schedule.
C38_FailureAtomic ==
    /\ [][(announces' = announces + 1 /\ lg_last' = "announce_error") =>
            (/\ current_round' = current_round
             /\ matches_completed_this_round' = matches_completed_this_round)]_vars
    /\ [](current_round <= Len(lg_schedule))

(***************************************************************************)
(* Specifications                                                          *)
(***************************************************************************)
InitSched == SchedInit /\ CbIdle /\ ClIdle /\ DelayIdle /\ GameIdle /\ MatchIdle /\ CounterIdle /\ PoolIdle /\ LeagueIdle
NextSched ==
    \/ CreateSchedule /\ UNCHANGED exceptSched
    \/ ValidateSchedule /\ UNCHANGED exceptSched
SpecSched == InitSched /\ [][NextSched]_vars

InitValidate == ValidateInit /\ CbIdle /\ ClIdle /\ DelayIdle /\ GameIdle /\ MatchIdle /\ CounterIdle /\ PoolIdle /\ LeagueIdle
NextValidate == ValidateSchedule /\ UNCHANGED exceptSched
SpecValidate == InitValidate /\ [][NextValidate]_vars

InitBreaker == CbInit /\ SchedIdle /\ ClIdle /\ DelayIdle /\ GameIdle /\ MatchIdle /\ CounterIdle /\ PoolIdle /\ LeagueIdle
NextBreaker ==
    \/ can_execute /\ UNCHANGED exceptBreaker
    \/ record_success /\ UNCHANGED exceptBreaker
    \/ record_failure /\ UNCHANGED exceptBreaker
    \/ Tick /\ UNCHANGED exceptBreaker
SpecBreaker == InitBreaker /\ [][NextBreaker]_vars

InitClient == CbInit /\ ClInit /\ SchedIdle /\ DelayIdle /\ GameIdle /\ MatchIdle /\ CounterIdle /\ PoolIdle /\ LeagueIdle
NextClient ==
    \/ ResilientPost /\ UNCHANGED exceptClient
    \/ \E outcome \in Outcomes : Attempt(outcome) /\ UNCHANGED exceptClient
    \/ Sleep /\ UNCHANGED exceptClient
    \/ Tick /\ UNCHANGED exceptBreaker
SpecClient == InitClient /\ [][NextClient]_vars

InitGame == GameInit /\ SchedIdle /\ CbIdle /\ ClIdle /\ DelayIdle /\ MatchIdle /\ CounterIdle /\ PoolIdle /\ LeagueIdle
NextGame ==
    \/ \E player_a, player_b \in GameIds, choice_a, choice_b \in Choices,
          given \in {None} \cup {<<n>> : n \in (-MaxDrawn)..MaxDrawn},
          drawn \in MIN_NUMBER..MAX_NUMBER :
          /\ DetermineWinner(player_a, player_b, choice_a, choice_b, given, drawn)
          /\ UNCHANGED exceptGame
    \/ \E player_a, player_b, losing_player \in GameIds, reason \in Reasons :
          /\ CreateTechnicalLoss(player_a, player_b, losing_player, reason)
          /\ UNCHANGED exceptGame
SpecGame == InitGame /\ [][NextGame]_vars

InitMatch == MatchInit /\ SchedIdle /\ CbIdle /\ ClIdle /\ DelayIdle /\ GameIdle /\ CounterIdle /\ PoolIdle /\ LeagueIdle
NextMatch ==
    \/ HandleRoundAnnouncement /\ UNCHANGED exceptMatch
    \/ RunMatch /\ UNCHANGED exceptMatch
    \/ \E t \in TaskIds : SendInvitation(t) /\ UNCHANGED exceptMatch
    \/ \E t \in TaskIds, kind \in InviteReplies :
          InvitationReply(t, kind) /\ UNCHANGED exceptMatch
    \/ \E t \in TaskIds : RequestChoice(t) /\ UNCHANGED exceptMatch
    \/ \E t \in TaskIds, drawn \in MIN_NUMBER..MAX_NUMBER :
          ChoiceReply(t, drawn) /\ UNCHANGED exceptMatch
    \/ \E t \in TaskIds : SendGameOver(t) /\ UNCHANGED exceptMatch
    \/ \E t \in TaskIds, ok \in BOOLEAN : GameOverReply(t, ok) /\ UNCHANGED exceptMatch
    \/ \E t \in TaskIds : SendReport(t) /\ UNCHANGED exceptMatch
    \/ \E t \in TaskIds, ok \in BOOLEAN : ReportReply(t, ok) /\ UNCHANGED exceptMatch
SpecMatch == InitMatch /\ [][NextMatch]_vars

InitReferee == RefereeInit /\ SchedIdle /\ CbIdle /\ ClIdle /\ DelayIdle /\ GameIdle /\ CounterIdle /\ PoolIdle /\ LeagueIdle
\* the steps of task t, each participant answering as replies and intended say
TaskStep(t) ==
    \/ SendInvitation(t)
    \/ InvitationReply(t, replies[Pair(t)[m_turn[t]]].invitation)
    \/ RequestChoice(t)
    \/ \E drawn \in MIN_NUMBER..MAX_NUMBER : ChoiceReply(t, drawn)
    \/ SendGameOver(t)
    \/ GameOverReply(t, replies[Pair(t)[m_turn[t]]].game_over)
    \/ SendReport(t)
    \/ \E ok \in BOOLEAN : ReportReply(t, ok)
NextReferee ==
    \/ HandleRoundAnnouncement /\ UNCHANGED exceptMatch
    \/ \E t \in TaskIds : TaskStep(t) /\ UNCHANGED exceptMatch
SpecReferee == InitReferee /\ [][NextReferee]_vars
\* the event loop runs every task that can take a step, and every awaited
\* client.post returns or times out
FairReferee ==
    /\ SpecReferee
    /\ \A t \in TaskIds : WF_vars(TaskStep(t) /\ UNCHANGED exceptMatch)

InitDelay == DelayInit /\ SchedIdle /\ CbIdle /\ ClIdle /\ GameIdle /\ MatchIdle /\ CounterIdle /\ PoolIdle /\ LeagueIdle
NextDelay ==
    \E k \in 0..MaxAttempt, r \in 0..(JitterSteps - 1) :
        CalculateDelay(k, r) /\ UNCHANGED exceptDelay
SpecDelay == InitDelay /\ [][NextDelay]_vars
\* every awaited client.post and every awaited asyncio.sleep returns
FairClient ==
    /\ SpecClient
    /\ WF_vars((\E outcome \in Outcomes : Attempt(outcome)) /\ UNCHANGED exceptClient)
    /\ WF_vars(Sleep /\ UNCHANGED exceptClient)

InitCounter == CounterInit /\ SchedIdle /\ CbIdle /\ ClIdle /\ DelayIdle /\ GameIdle /\ MatchIdle /\ PoolIdle /\ LeagueIdle
NextCounter ==
    \/ \E t \in CounterThreads, method \in CounterMethods, amount \in 1..MaxAmount :
          /\ CallCounter(t, method, IF method = "get_value" THEN 0 ELSE amount)
          /\ UNCHANGED exceptCounter
    \/ \E t \in CounterThreads : AcquireLock(t) /\ UNCHANGED exceptCounter
    \/ \E t \in CounterThreads : LoadValue(t) /\ UNCHANGED exceptCounter
    \/ \E t \in CounterThreads : StoreValue(t) /\ UNCHANGED exceptCounter
    \/ \E t \in CounterThreads : ReturnValue(t) /\ UNCHANGED exceptCounter
    \/ \E t \in CounterThreads : ReleaseLock(t) /\ UNCHANGED exceptCounter
SpecCounter == InitCounter /\ [][NextCounter]_vars

InitPool == PoolInit /\ SchedIdle /\ CbIdle /\ ClIdle /\ DelayIdle /\ GameIdle /\ MatchIdle /\ CounterIdle /\ LeagueIdle
NextPool ==
    \/ PoolStart /\ UNCHANGED exceptPool
    \/ \E task \in PoolTasks : PoolSubmit(task) /\ UNCHANGED exceptPool
    \/ \E wait \in BOOLEAN : PoolStop(wait) /\ UNCHANGED exceptPool
    \/ JoinQueue /\ UNCHANGED exceptPool
    \/ JoinWorkers /\ UNCHANGED exceptPool
    \/ GetResults /\ UNCHANGED exceptPool
    \/ \E w \in PoolThreads : WorkerStep(w) /\ UNCHANGED exceptPool
SpecPool == InitPool /\ [][NextPool]_vars
\* every thread that can take a step is scheduled, and the waits of stop()
\* end when what they wait for has happened
FairPool ==
    /\ SpecPool
    /\ \A w \in PoolThreads : WF_vars(WorkerStep(w) /\ UNCHANGED exceptPool)
    /\ WF_vars(JoinQueue /\ UNCHANGED exceptPool)
    /\ WF_vars(JoinWorkers /\ UNCHANGED exceptPool)

InitLeague == LeagueInit /\ SchedIdle /\ CbIdle /\ ClIdle /\ DelayIdle /\ GameIdle /\ MatchIdle /\ CounterIdle /\ PoolIdle
NextLeague ==
    \/ StartLeague /\ UNCHANGED exceptLeague
    \/ AnnounceRound /\ UNCHANGED exceptLeague
    \/ \E round \in announced, token_ok \in BOOLEAN :
          \E index \in DOMAIN lg_schedule[round] :
             MatchResultReport(round, index, token_ok) /\ UNCHANGED exceptLeague
SpecLeague == InitLeague /\ [][NextLeague]_vars

====
